---- MODULE Spec2Model ----
(***************************************************************************)
(* Import Map Explorer: the dependency-graph pipeline of                   *)
(* src/src/importAnalyzer.ts (GitignoreParser, ImportAnalyzer) and the     *)
(* conversion / layout code of src/src/importMapPanel.ts.                  *)
(*                                                                         *)
(* Paths, import sources and ignore patterns are strings; the filesystem   *)
(* is a function from absolute paths to entries.  No source string of the  *)
(* input sets ends with a separator, so path.join / path.resolve are       *)
(* modelled without their trailing-separator case.                         *)
(***************************************************************************)
EXTENDS Integers, Sequences, FiniteSets, TLC

VARIABLES
    fs,        \* the filesystem: absolute path -> entry
    analyzer,  \* the fields of the one ImportAnalyzer instance
    inv,       \* the running analysis invocations (locals of analyzeProject / analyzeFile)
    q,         \* the last direct call of a pure helper: operation, arguments, result
    view       \* the webview script state: nodes, edges, canvas, localStorage

vars == <<fs, analyzer, inv, q, view>>

None == "<undefined>"

----------------------------------------------------------------------------
(* String helpers (JavaScript String methods).                             *)

At(s, i) == SubSeq(s, i, i)

StartsWith(s, p) == Len(s) >= Len(p) /\ SubSeq(s, 1, Len(p)) = p

EndsWith(s, p) == Len(s) >= Len(p) /\ SubSeq(s, Len(s) - Len(p) + 1, Len(s)) = p

\* s.substring(n)
Substring(s, n) == SubSeq(s, n + 1, Len(s))

\* s.indexOf(c) for a one-character c, 0-based, -1 when absent
IndexOf(s, c) ==
    IF \E i \in 1..Len(s) : At(s, i) = c
    THEN (CHOOSE i \in 1..Len(s) : At(s, i) = c /\ \A j \in 1..(i-1) : At(s, j) # c) - 1
    ELSE -1

\* s.lastIndexOf(c), 0-based, -1 when absent
LastIndexOf(s, c) ==
    IF \E i \in 1..Len(s) : At(s, i) = c
    THEN (CHOOSE i \in 1..Len(s) : At(s, i) = c /\ \A j \in (i+1)..Len(s) : At(s, j) # c) - 1
    ELSE -1

RECURSIVE Split(_, _)
\* s.split(c): the pieces of s between occurrences of the character c
Split(s, c) ==
    LET i == IndexOf(s, c)
    IN  IF i = -1 THEN <<s>>
        ELSE <<SubSeq(s, 1, i)>> \o Split(Substring(s, i + 1), c)

RECURSIVE JoinWith(_, _)
\* arr.join(c)
JoinWith(parts, c) ==
    IF Len(parts) = 0 THEN ""
    ELSE IF Len(parts) = 1 THEN parts[1]
    ELSE parts[1] \o c \o JoinWith(Tail(parts), c)

IsSpace(c) == c \in {" ", "\t", "\r"}

RECURSIVE TrimLeft(_)
TrimLeft(s) == IF Len(s) > 0 /\ IsSpace(At(s, 1)) THEN TrimLeft(Substring(s, 1)) ELSE s

RECURSIVE TrimRight(_)
TrimRight(s) ==
    IF Len(s) > 0 /\ IsSpace(At(s, Len(s))) THEN TrimRight(SubSeq(s, 1, Len(s) - 1)) ELSE s

\* s.trim()
Trim(s) == TrimRight(TrimLeft(s))

RECURSIVE ReplaceAllChar(_, _, _)
\* s.replace(/c/g, d) for one-character c
ReplaceAllChar(s, c, d) ==
    IF Len(s) = 0 THEN ""
    ELSE (IF At(s, 1) = c THEN d ELSE At(s, 1)) \o ReplaceAllChar(Substring(s, 1), c, d)

\* s.replace(a, b) for a string a: only the first occurrence is replaced
ReplaceFirst(s, a, b) ==
    IF \E i \in 1..(Len(s) - Len(a) + 1) : SubSeq(s, i, i + Len(a) - 1) = a
    THEN LET i == CHOOSE k \in 1..(Len(s) - Len(a) + 1) :
                    /\ SubSeq(s, k, k + Len(a) - 1) = a
                    /\ \A j \in 1..(k-1) : SubSeq(s, j, j + Len(a) - 1) # a
         IN  SubSeq(s, 1, i - 1) \o b \o SubSeq(s, i + Len(a), Len(s))
    ELSE s

Range(f) == { f[i] : i \in DOMAIN f }

----------------------------------------------------------------------------
(* Node's path module, POSIX flavour.                                      *)

RECURSIVE NormalizeSegs(_, _)
\* the "." / ".." / empty-segment elimination of path.normalize on an absolute path
NormalizeSegs(segs, acc) ==
    IF Len(segs) = 0 THEN acc
    ELSE LET h == Head(segs)
         IN  IF h = "" \/ h = "." THEN NormalizeSegs(Tail(segs), acc)
             ELSE IF h = ".."
                  THEN NormalizeSegs(Tail(segs),
                                     IF Len(acc) > 0 THEN SubSeq(acc, 1, Len(acc) - 1) ELSE acc)
                  ELSE NormalizeSegs(Tail(segs), Append(acc, h))

\* the segments of an absolute path
PathSegs(p) == NormalizeSegs(Split(p, "/"), <<>>)

FromSegs(segs) == "/" \o JoinWith(segs, "/")

\* path.join(a, b) for an absolute a
PathJoin(a, b) == FromSegs(PathSegs(a \o "/" \o b))

\* path.join(a, b, c) for an absolute a
PathJoin3(a, b, c) == FromSegs(PathSegs(a \o "/" \o b \o "/" \o c))

\* path.isAbsolute(p)
IsAbsolute(p) == StartsWith(p, "/")

\* path.resolve(dir, source) for an absolute dir
PathResolve(dir, source) ==
    IF IsAbsolute(source) THEN FromSegs(PathSegs(source))
    ELSE FromSegs(PathSegs(dir \o "/" \o source))

\* path.dirname(p) for an absolute, normalized p
PathDirname(p) ==
    LET i == LastIndexOf(p, "/")
    IN  IF i <= 0 THEN "/" ELSE SubSeq(p, 1, i)

\* path.basename(p)
PathBasename(p) == Substring(p, LastIndexOf(p, "/") + 1)

RECURSIVE CommonPrefixLen(_, _)
CommonPrefixLen(a, b) ==
    IF Len(a) = 0 \/ Len(b) = 0 \/ Head(a) # Head(b) THEN 0
    ELSE 1 + CommonPrefixLen(Tail(a), Tail(b))

\* path.relative(from, to) for absolute paths
\* the path from the segments f to the segments t that share their first n segments
RelativeSegs(f, t, n) ==
    JoinWith([i \in 1..(Len(f) - n) |-> ".."] \o SubSeq(t, n + 1, Len(t)), "/")

RelativeOf(f, t) == RelativeSegs(f, t, CommonPrefixLen(f, t))

PathRelative(from, to) == RelativeOf(PathSegs(from), PathSegs(to))

----------------------------------------------------------------------------
(* Node's fs module over the modelled filesystem.                          *)

\* fs.existsSync(p)
ExistsSync(p) == p \in DOMAIN fs /\ fs[p].kind # "none"

\* fs.existsSync(p) && fs.statSync(p).isFile()
IsFile(p) == ExistsSync(p) /\ fs[p].kind = "file"

\* fs.existsSync(p) && fs.statSync(p).isDirectory()
IsDirectory(p) == ExistsSync(p) /\ fs[p].kind = "dir"

\* fs.readFileSync(p, 'utf-8') returns (does not throw)
CanRead(p) == IsFile(p) /\ fs[p].readable

\* fs.readdirSync(dir) returns (does not throw)
CanList(dir) == IsDirectory(dir) /\ fs[dir].readable

\* the entries of fs.readdirSync(dir), as full paths, in one fixed order
RECURSIVE SetToSeq(_)
SetToSeq(S) ==
    IF S = {} THEN <<>>
    ELSE LET x == CHOOSE y \in S : TRUE IN <<x>> \o SetToSeq(S \ {x})

ReaddirSync(dir) ==
    SetToSeq({ p \in DOMAIN fs : ExistsSync(p) /\ p # dir /\ PathDirname(p) = dir })

\* filesystem entries
NoEntry == [kind |-> "none", readable |-> FALSE, stmts |-> <<>>, lines |-> <<>>, srcDir |-> None, tsDeps |-> FALSE]

DirEntry == [kind |-> "dir", readable |-> TRUE, stmts |-> <<>>, lines |-> <<>>, srcDir |-> None, tsDeps |-> FALSE]

\* a source file whose text holds the import statements stmts
SourceFile(stmts) == [kind |-> "file", readable |-> TRUE, stmts |-> stmts, lines |-> <<>>, srcDir |-> None, tsDeps |-> FALSE]

\* a text file (.gitignore) given by its lines, content.split('\n')
TextFile(lines) == [kind |-> "file", readable |-> TRUE, stmts |-> <<>>, lines |-> lines, srcDir |-> None, tsDeps |-> FALSE]

\* every existing path other than the filesystem root lies in an existing directory
WellFormedFs(f) ==
    \A p \in DOMAIN f :
        f[p].kind # "none" /\ PathDirname(p) # "/" =>
            PathDirname(p) \in DOMAIN f /\ f[PathDirname(p)].kind = "dir"

----------------------------------------------------------------------------
(* GitignoreParser.                                                        *)

RECURSIVE GlobRegexTest(_, _)
\* new RegExp('^' + regexPattern + '$').test(text): '*' is '.*', '?' is '.',
\* every other character of the pattern stands for itself
GlobRegexTest(text, pattern) ==
    IF Len(pattern) = 0 THEN Len(text) = 0
    ELSE LET c == At(pattern, 1)
             rest == Substring(pattern, 1)
         IN  IF c = "*"
             THEN \/ GlobRegexTest(text, rest)
                  \/ Len(text) > 0 /\ GlobRegexTest(Substring(text, 1), pattern)
             ELSE IF c = "?"
             THEN Len(text) > 0 /\ GlobRegexTest(Substring(text, 1), rest)
             ELSE Len(text) > 0 /\ At(text, 1) = c /\ GlobRegexTest(Substring(text, 1), rest)

globMatch(text, pattern) == GlobRegexTest(text, pattern)

matchesPattern(filePath, pattern) ==
    LET normalizedPath == ReplaceAllChar(filePath, "\\", "/")
        normalizedPattern == ReplaceAllChar(pattern, "\\", "/")
        pathSegments == Split(normalizedPath, "/")
    IN  IF StartsWith(normalizedPattern, "/")
        THEN globMatch(normalizedPath, Substring(normalizedPattern, 1))
        ELSE \/ globMatch(normalizedPath, normalizedPattern)
             \/ \E i \in 1..Len(pathSegments) :
                    globMatch(JoinWith(SubSeq(pathSegments, i, Len(pathSegments)), "/"),
                              normalizedPattern)

RECURSIVE ParseGitignoreLines(_, _)
\* the loop of loadGitignore over the lines of the file
ParseGitignoreLines(lines, patterns) ==
    IF Len(lines) = 0 THEN patterns
    ELSE LET trimmed == Trim(Head(lines))
             isNegation == StartsWith(trimmed, "!")
             isDirectory == EndsWith(trimmed, "/")
             p1 == IF isNegation THEN Substring(trimmed, 1) ELSE trimmed
             p2 == IF isDirectory THEN SubSeq(p1, 1, Len(p1) - 1) ELSE p1
         IN  IF trimmed = "" \/ StartsWith(trimmed, "#")
             THEN ParseGitignoreLines(Tail(lines), patterns)
             ELSE ParseGitignoreLines(Tail(lines),
                      Append(patterns, [pattern |-> p2, isNegation |-> isNegation,
                                        isDirectory |-> isDirectory]))

loadGitignore(projectRoot) ==
    LET gitignorePath == PathJoin(projectRoot, ".gitignore")
    IN  IF ~ExistsSync(gitignorePath) THEN <<>>
        ELSE IF ~CanRead(gitignorePath) THEN <<>>
        ELSE ParseGitignoreLines(fs[gitignorePath].lines, <<>>)

\* new GitignoreParser(projectRoot)
GitignoreParser(projectRoot) ==
    [isNull |-> FALSE, projectRoot |-> projectRoot, patterns |-> loadGitignore(projectRoot)]

\* private gitignoreParser: GitignoreParser | null = null
NullParser == [isNull |-> TRUE, projectRoot |-> "", patterns |-> <<>>]

RECURSIVE ShouldIgnoreLoop(_, _, _, _)
ShouldIgnoreLoop(patterns, relativePath, isDirectory, acc) ==
    IF Len(patterns) = 0 THEN acc
    ELSE LET r == Head(patterns)
         IN  IF r.isDirectory /\ ~isDirectory
             THEN ShouldIgnoreLoop(Tail(patterns), relativePath, isDirectory, acc)
             ELSE IF matchesPattern(relativePath, r.pattern)
             THEN ShouldIgnoreLoop(Tail(patterns), relativePath, isDirectory, ~r.isNegation)
             ELSE ShouldIgnoreLoop(Tail(patterns), relativePath, isDirectory, acc)

\* the mutant of shouldIgnore: the first matching rule decides
shouldIgnore_FirstMatch(parser, filePath) ==
    LET relativePath == PathRelative(parser.projectRoot, filePath)
        isDirectory == IsDirectory(filePath)
        M == { i \in 1..Len(parser.patterns) :
                 /\ ~(parser.patterns[i].isDirectory /\ ~isDirectory)
                 /\ matchesPattern(relativePath, parser.patterns[i].pattern) }
    IN  M # {} /\ ~parser.patterns[CHOOSE i \in M : \A j \in M : i <= j].isNegation

\* the mutant of shouldIgnore: directory-only rules are applied to every path
shouldIgnore_DirectoryRulesAlways(parser, filePath) ==
    ShouldIgnoreLoop(parser.patterns, PathRelative(parser.projectRoot, filePath), TRUE, FALSE)

\* GitignoreParser.shouldIgnore(filePath)
shouldIgnore(parser, filePath) ==
    LET relativePath == PathRelative(parser.projectRoot, filePath)
        isDirectory == IsDirectory(filePath)
    IN  ShouldIgnoreLoop(parser.patterns, relativePath, isDirectory, FALSE)

----------------------------------------------------------------------------
(* ImportAnalyzer: module resolution.  The parameter a stands for `this`.  *)

\* const extensions in resolveFilePath
ProbeExtensions == <<"", ".ts", ".js", ".tsx", ".jsx", ".vue", ".svelte">>

\* this.gitignoreParser && this.gitignoreParser.shouldIgnore(p)
IgnoredByParser(a, p) ==
    ~a.gitignoreParser.isNull /\ shouldIgnore(a.gitignoreParser, p)

RECURSIVE ResolveDirectLoop(_, _, _)
\* the first loop of resolveFilePath, from extension number i on;
\* None when it falls through
ResolveDirectLoop(a, filePath, i) ==
    IF i > Len(ProbeExtensions) THEN None
    ELSE LET fullPath == filePath \o ProbeExtensions[i]
         IN  IF IsFile(fullPath) /\ ~IgnoredByParser(a, fullPath) THEN fullPath
             ELSE ResolveDirectLoop(a, filePath, i + 1)

RECURSIVE ResolveIndexLoop(_, _, _)
\* the second loop of resolveFilePath (extensions.slice(1)); None when it falls through
ResolveIndexLoop(a, filePath, i) ==
    IF i > Len(ProbeExtensions) THEN None
    ELSE LET indexPath == PathJoin(filePath, "index" \o ProbeExtensions[i])
         IN  IF ExistsSync(indexPath) /\ ~IgnoredByParser(a, indexPath) THEN indexPath
             ELSE ResolveIndexLoop(a, filePath, i + 1)

\* what resolveFilePath returns when its loops end with direct and index
ResolveResult(direct, index, filePath) ==
    IF direct # None THEN direct
    ELSE IF index # None THEN index
    ELSE filePath

resolveFilePath(a, filePath) ==
    ResolveResult(ResolveDirectLoop(a, filePath, 1), ResolveIndexLoop(a, filePath, 2), filePath)

isProjectAlias(source) ==
    \/ StartsWith(source, "@/")
    \/ StartsWith(source, "~/")
    \/ StartsWith(source, "~~/")
    \/ StartsWith(source, "#app/")
    \/ StartsWith(source, "#imports")
    \/ StartsWith(source, "#components/")

\* the candidate base (aliasPath) that resolveProjectAlias hands to resolveFilePath
AliasPath(a, source, projectRoot) ==
    IF StartsWith(source, "@/")
    THEN LET withoutAlias == Substring(source, 2)
             srcPath == PathJoin3(projectRoot, a.nuxtSrcDir, withoutAlias)
         IN  IF ExistsSync(srcPath) \/ ExistsSync(PathDirname(srcPath))
             THEN srcPath
             ELSE PathJoin(projectRoot, withoutAlias)
    ELSE IF StartsWith(source, "~/") \/ StartsWith(source, "~~/")
    THEN LET withoutAlias == IF StartsWith(source, "~~/") THEN Substring(source, 3)
                             ELSE Substring(source, 2)
         IN  PathJoin3(projectRoot, a.nuxtSrcDir, withoutAlias)
    ELSE IF StartsWith(source, "#app/") \/ StartsWith(source, "#imports")
            \/ StartsWith(source, "#components/")
    THEN PathJoin3(projectRoot, a.nuxtSrcDir, Substring(source, IndexOf(source, "/") + 1))
    ELSE None

\* the mutant of resolveProjectAlias: the alias is resolved against the project root
resolveProjectAlias_Root(a, source, projectRoot) ==
    resolveFilePath(a, PathJoin(projectRoot, Substring(source, IndexOf(source, "/") + 1)))

resolveProjectAlias(a, source, projectRoot) ==
    LET aliasPath == AliasPath(a, source, projectRoot)
    IN  IF aliasPath = None THEN None ELSE resolveFilePath(a, aliasPath)

createImportInfo(a, source, fileDir, projectRoot, type) ==
    LET isAlias == isProjectAlias(source)
        isNodeModule == ~StartsWith(source, ".") /\ ~IsAbsolute(source) /\ ~isAlias
        resolvedPath ==
            IF isNodeModule THEN None
            ELSE IF isAlias THEN resolveProjectAlias(a, source, projectRoot)
            ELSE resolveFilePath(a, PathResolve(fileDir, source))
    IN  [source |-> source, type |-> type, isNodeModule |-> isNodeModule,
         resolvedPath |-> resolvedPath]

\* parseNuxtSrcDir on a config whose text gives the srcDir pattern the capture raw
\* (None: no pattern matches); the result None stands for null
parseNuxtSrcDir(raw) ==
    IF raw = None THEN None
    ELSE LET t == Trim(raw)
             srcDir == IF EndsWith(t, "/") THEN SubSeq(t, 1, Len(t) - 1) ELSE t
         IN  IF srcDir = "" \/ srcDir = "./" THEN "." ELSE srcDir

\* const configFiles in detectNuxtSrcDir
NuxtConfigFiles == <<"nuxt.config.ts", "nuxt.config.js", "nuxt.config.mjs">>

RECURSIVE DetectNuxtLoop(_, _)
DetectNuxtLoop(projectRoot, i) ==
    IF i > Len(NuxtConfigFiles) THEN None
    ELSE LET configPath == PathJoin(projectRoot, NuxtConfigFiles[i])
             srcDir == IF ExistsSync(configPath) /\ CanRead(configPath)
                       THEN parseNuxtSrcDir(fs[configPath].srcDir) ELSE None
         IN  IF srcDir # None THEN srcDir ELSE DetectNuxtLoop(projectRoot, i + 1)

detectNuxtSrcDir(projectRoot) ==
    LET fromConfig == DetectNuxtLoop(projectRoot, 1)
    IN  IF fromConfig # None THEN fromConfig
        ELSE IF IsDirectory(PathJoin(projectRoot, "src")) THEN "src"
        ELSE "."

----------------------------------------------------------------------------
(* ImportAnalyzer: project type detection and the scan.                    *)
(*                                                                         *)
(* A source text is the sequence of its import statements; a statement is  *)
(* [form, source, inScript].  The forms and their canonical texts:         *)
(*   named    import { x } from 's'      star     import * as x from 's'   *)
(*   default  import x from 's'          bare     import 's'               *)
(*   lazy     () => import('s')          dynamic  import('s')              *)
(*   bound    const x = require('s')     inline   require('s')             *)
(* inScript says whether the statement stands inside a <script> block.     *)

StatementForms == {"named", "star", "default", "bare", "lazy", "dynamic", "bound", "inline"}

Stmt(form, source) == [form |-> form, source |-> source, inScript |-> TRUE]

shouldIgnoreDirectory(dirName) ==
    \/ dirName \in {"node_modules", ".git", "dist", "build", "out", ".vscode", ".next"}
    \/ StartsWith(dirName, ".")

ZeroStats == [tsFiles |-> 0, jsFiles |-> 0, vueFiles |-> 0, svelteFiles |-> 0]

RECURSIVE CountEntries(_, _, _)
RECURSIVE countFiles(_, _, _)
\* the closure countFiles of analyzeFileDistribution
countFiles(dir, depth, stats) ==
    IF depth > 3 THEN stats
    ELSE IF ~CanList(dir) THEN stats
    ELSE CountEntries(ReaddirSync(dir), depth, stats)

CountEntries(entries, depth, stats) ==
    IF Len(entries) = 0 THEN stats
    ELSE LET fullPath == Head(entries)
             name == PathBasename(fullPath)
             after ==
                IF IsDirectory(fullPath)
                THEN IF ~shouldIgnoreDirectory(name)
                     THEN countFiles(fullPath, depth + 1, stats) ELSE stats
                ELSE IF IsFile(fullPath)
                THEN IF EndsWith(name, ".ts") \/ EndsWith(name, ".tsx")
                     THEN [stats EXCEPT !.tsFiles = @ + 1]
                     ELSE IF EndsWith(name, ".js") \/ EndsWith(name, ".jsx")
                     THEN [stats EXCEPT !.jsFiles = @ + 1]
                     ELSE IF EndsWith(name, ".vue")
                     THEN [stats EXCEPT !.vueFiles = @ + 1]
                     ELSE IF EndsWith(name, ".svelte")
                     THEN [stats EXCEPT !.svelteFiles = @ + 1]
                     ELSE stats
                ELSE stats
         IN  CountEntries(Tail(entries), depth, after)

analyzeFileDistribution(projectRoot) == countFiles(projectRoot, 0, ZeroStats)

\* the number of matches of /require\s*\(/g in a text
RequireMatches(stmts) == Cardinality({ i \in 1..Len(stmts) : stmts[i].form \in {"bound", "inline"} })

\* the number of matches of /import\s+/g in a text
ImportMatches(stmts) ==
    Cardinality({ i \in 1..Len(stmts) : stmts[i].form \in {"named", "star", "default", "bare"} })

\* the cap of detectJavaScriptModuleType on the files it samples
MaxFilesChecked == 20

RECURSIVE CheckEntries(_, _, _)
RECURSIVE checkFiles(_, _, _)
\* the closure checkFiles of detectJavaScriptModuleType; c holds its three counters
checkFiles(dir, depth, c) ==
    IF depth > 2 \/ c.filesChecked > MaxFilesChecked THEN c
    ELSE IF ~CanList(dir) THEN c
    ELSE CheckEntries(ReaddirSync(dir), depth, c)

CheckEntries(entries, depth, c) ==
    IF Len(entries) = 0 \/ c.filesChecked > MaxFilesChecked THEN c
    ELSE LET fullPath == Head(entries)
             name == PathBasename(fullPath)
             after ==
                IF IsDirectory(fullPath) /\ ~shouldIgnoreDirectory(name)
                THEN checkFiles(fullPath, depth + 1, c)
                ELSE IF IsFile(fullPath) /\ (EndsWith(name, ".js") \/ EndsWith(name, ".jsx"))
                THEN IF CanRead(fullPath)
                     THEN [requireCount |-> c.requireCount + RequireMatches(fs[fullPath].stmts),
                           importCount |-> c.importCount + ImportMatches(fs[fullPath].stmts),
                           filesChecked |-> c.filesChecked + 1]
                     ELSE c
                ELSE c
         IN  CheckEntries(Tail(entries), depth, after)

detectJavaScriptModuleType(projectRoot) ==
    LET c == checkFiles(projectRoot, 0, [requireCount |-> 0, importCount |-> 0, filesChecked |-> 0])
    IN  IF c.requireCount > c.importCount * 2 THEN "javascript-commonjs"
        ELSE IF c.importCount > c.requireCount * 2 THEN "javascript-es6"
        ELSE "mixed"

detectProjectType(projectRoot) ==
    LET packageJsonPath == PathJoin(projectRoot, "package.json")
        hasTypeScript == ExistsSync(PathJoin(projectRoot, "tsconfig.json"))
        hasTypeScriptDeps ==
            ExistsSync(packageJsonPath) /\ CanRead(packageJsonPath) /\ fs[packageJsonPath].tsDeps
        fileStats == analyzeFileDistribution(projectRoot)
    IN  IF (hasTypeScript \/ hasTypeScriptDeps) /\ fileStats.tsFiles > 0
        THEN IF fileStats.jsFiles > 0 THEN "mixed" ELSE "typescript"
        ELSE IF (hasTypeScript \/ hasTypeScriptDeps) /\ fileStats.jsFiles > 0
        THEN "typescript"
        ELSE IF fileStats.tsFiles > 0 /\ fileStats.jsFiles > 0 THEN "mixed"
        ELSE IF fileStats.tsFiles > 0 /\ fileStats.jsFiles = 0 THEN "typescript"
        ELSE IF fileStats.jsFiles > 0 THEN detectJavaScriptModuleType(projectRoot)
        ELSE "mixed"

getSupportedExtensions(projectType) ==
    IF projectType = "typescript" THEN <<".ts", ".tsx", ".vue", ".svelte">>
    ELSE IF projectType \in {"javascript-commonjs", "javascript-es6"}
    THEN <<".js", ".jsx", ".vue", ".svelte">>
    ELSE <<".js", ".jsx", ".ts", ".tsx", ".vue", ".svelte">>

isSupportedFile(a, filePath) ==
    \E i \in 1..Len(a.supportedExtensions) : EndsWith(filePath, a.supportedExtensions[i])

isCompiledFile(a, filePath) ==
    LET relativePath == PathRelative(a.projectRoot, filePath)
    IN  \/ /\ a.projectType \in {"typescript", "mixed"}
           /\ \/ /\ EndsWith(filePath, ".js")
                 /\ \/ ExistsSync(ReplaceFirst(filePath, ".js", ".ts"))
                    \/ ExistsSync(ReplaceFirst(filePath, ".js", ".tsx"))
              \/ /\ EndsWith(filePath, ".jsx")
                 /\ ExistsSync(ReplaceFirst(filePath, ".jsx", ".tsx"))
        \/ \E dir \in {"dist/", "build/", "out/", "lib/", ".next/", "coverage/"} :
              StartsWith(relativePath, dir)

RECURSIVE ScanEntries(_, _, _)
RECURSIVE getAllFiles(_, _)
\* getAllFiles(dir): [threw, files]; threw when a fs.readdirSync beneath it throws
getAllFiles(a, dir) ==
    IF ~CanList(dir) THEN [threw |-> TRUE, files |-> <<>>]
    ELSE ScanEntries(a, ReaddirSync(dir), [threw |-> FALSE, files |-> <<>>])

ScanEntries(a, entries, acc) ==
    IF Len(entries) = 0 \/ acc.threw THEN acc
    ELSE LET fullPath == Head(entries)
             name == PathBasename(fullPath)
             sub == getAllFiles(a, fullPath)
             after ==
                IF IgnoredByParser(a, fullPath) THEN acc
                ELSE IF IsDirectory(fullPath) /\ ~shouldIgnoreDirectory(name)
                THEN [threw |-> sub.threw, files |-> acc.files \o sub.files]
                ELSE IF IsFile(fullPath) /\ isSupportedFile(a, fullPath)
                        /\ ~isCompiledFile(a, fullPath)
                THEN [acc EXCEPT !.files = Append(@, fullPath)]
                ELSE acc
         IN  ScanEntries(a, Tail(entries), after)

----------------------------------------------------------------------------
(* ImportAnalyzer: extraction and file records.                            *)

\* the ImportInfo records one pattern yields: a match for every statement of forms
PatternMatches(a, stmts, forms, type, fileDir, projectRoot) ==
    LET hits == SelectSeq(stmts, LAMBDA st : st.form \in forms)
    IN  [k \in 1..Len(hits) |-> createImportInfo(a, hits[k].source, fileDir, projectRoot, type)]

\* the four importPatterns, the three dynamicImportPatterns, then requirePattern:
\* the statement forms each one matches and the type it records
ImportPatterns ==
    << [forms |-> {"named"}, type |-> "import"],
       [forms |-> {"star"}, type |-> "import"],
       [forms |-> {"default"}, type |-> "import"],
       [forms |-> {"bare"}, type |-> "import"],
       [forms |-> {"lazy"}, type |-> "dynamic-import"],
       [forms |-> {"lazy", "dynamic"}, type |-> "dynamic-import"],
       [forms |-> {"bound", "inline"}, type |-> "require"],
       [forms |-> {"bound"}, type |-> "require"] >>

RECURSIVE PatternLoop(_, _, _, _, _)
\* the pattern loops of extractImportsWithRegex, from pattern number i on
PatternLoop(a, stmts, fileDir, projectRoot, i) ==
    IF i > Len(ImportPatterns) THEN <<>>
    ELSE PatternMatches(a, stmts, ImportPatterns[i].forms, ImportPatterns[i].type,
                        fileDir, projectRoot)
         \o PatternLoop(a, stmts, fileDir, projectRoot, i + 1)

extractImportsWithRegex(a, stmts, fileDir, projectRoot) ==
    PatternLoop(a, stmts, fileDir, projectRoot, 1)

\* the statements inside the <script> blocks of a Vue file
extractVueScriptContent(stmts) == SelectSeq(stmts, LAMBDA st : st.inScript)

extractImports(a, stmts, filePath, projectRoot) ==
    LET scriptContent == IF EndsWith(filePath, ".vue") THEN extractVueScriptContent(stmts)
                         ELSE stmts
    IN  extractImportsWithRegex(a, scriptContent, PathDirname(filePath), projectRoot)

\* the mutant of analyzeFileContent: a file that cannot be read yields a record
\* without imports
analyzeFileContent_EmptyOnError(a, filePath, projectRoot) ==
    << [path |-> filePath, name |-> PathBasename(filePath),
        imports |-> IF ~CanRead(filePath) THEN <<>>
                    ELSE extractImports(a, fs[filePath].stmts, filePath, projectRoot),
        importedBy |-> <<>>, isNodeModule |-> FALSE] >>

\* analyzeFileContent: <<>> stands for null, <<node>> for a FileNode
analyzeFileContent(a, filePath, projectRoot) ==
    IF ~CanRead(filePath) THEN <<>>
    ELSE << [path |-> filePath, name |-> PathBasename(filePath),
             imports |-> extractImports(a, fs[filePath].stmts, filePath, projectRoot),
             importedBy |-> <<>>, isNodeModule |-> FALSE] >>

----------------------------------------------------------------------------
(* Map<string, FileNode>: the records in insertion order, one per key.     *)

MapKeys(files) == { files[k].path : k \in 1..Len(files) }

MapHas(files, key) == key \in MapKeys(files)

MapIndex(files, key) == CHOOSE k \in 1..Len(files) : files[k].path = key

\* files.set(node.path, node)
MapSet(files, node) ==
    IF MapHas(files, node.path) THEN [files EXCEPT ![MapIndex(files, node.path)] = node]
    ELSE Append(files, node)

\* the mutant of PushImportedBy: the relation is recorded on the importing record
PushImportedBy_Swapped(files, key, importer) ==
    IF importer \in { files[k].path : k \in 1..Len(files) }
    THEN [files EXCEPT ![CHOOSE k \in 1..Len(files) : files[k].path = importer].importedBy =
                          Append(@, key)]
    ELSE files

\* files.get(key).importedBy.push(importer), for a key of the map
PushImportedBy(files, key, importer) ==
    [files EXCEPT ![MapIndex(files, key)].importedBy = Append(@, importer)]

\* if (!importInfo.isNodeModule && importInfo.resolvedPath)
IsResolvedInternal(imp) == ~imp.isNodeModule /\ imp.resolvedPath # None /\ imp.resolvedPath # ""

----------------------------------------------------------------------------
(* ImportAnalyzer.analyzeProject and analyzeFile.  Both are async: the     *)
(* code between two awaits runs as one step.  An invocation record holds   *)
(* the locals of one call: files, the scan result, the loop position, the  *)
(* value of the awaited analyzeFileContent call, and how the call ended.   *)

\* the mutant of InitializeWith: getSupportedExtensions reads the project type
\* the analyzer held before the call
InitializeWith_StaleType(projectRoot, projectType) ==
    [projectRoot |-> projectRoot,
     nuxtSrcDir |-> detectNuxtSrcDir(projectRoot),
     projectType |-> projectType,
     supportedExtensions |-> getSupportedExtensions(analyzer.projectType),
     gitignoreParser |-> GitignoreParser(projectRoot)]

\* the "Initialize project analysis" block of both entry points
InitializeWith(projectRoot, projectType) ==
    [projectRoot |-> projectRoot,
     nuxtSrcDir |-> detectNuxtSrcDir(projectRoot),
     projectType |-> projectType,
     supportedExtensions |-> getSupportedExtensions(projectType),
     gitignoreParser |-> GitignoreParser(projectRoot)]

\* this.projectType is assigned first and read back by getSupportedExtensions
InitializeAnalysis(projectRoot) == InitializeWith(projectRoot, detectProjectType(projectRoot))

RECURSIVE SecondPass(_, _, _)
\* the second pass of analyzeProject, from import j of record i on
SecondPass(files, i, j) ==
    IF i > Len(files) THEN files
    ELSE IF j > Len(files[i].imports) THEN SecondPass(files, i + 1, 1)
    ELSE LET importInfo == files[i].imports[j]
         IN  IF IsResolvedInternal(importInfo) /\ MapHas(files, importInfo.resolvedPath)
             THEN SecondPass(PushImportedBy(files, importInfo.resolvedPath, files[i].path), i, j + 1)
             ELSE SecondPass(files, i, j + 1)

\* analyzeProject from the head of the first-pass loop at position r.idx:
\* up to the next await, or through the second pass to the return
ProjectAdvance(a, r) ==
    IF r.idx <= Len(r.allFiles)
    THEN [r EXCEPT !.pc = "pass1",
                   !.pending = analyzeFileContent(a, r.allFiles[r.idx], r.root)]
    ELSE [r EXCEPT !.pc = "done", !.status = "returned", !.pending = <<>>,
                   !.files = SecondPass(r.files, 1, 1)]

\* analyzeFile from the head of the Level 2 loop over the entry's imports
FileAdvanceDeps(a, r) ==
    LET imports == r.files[MapIndex(r.files, r.entry)].imports
        todo == { k \in r.idx..Len(imports) :
                    IsResolvedInternal(imports[k]) /\ ~MapHas(r.files, imports[k].resolvedPath) }
        k == CHOOSE k1 \in todo : \A k2 \in todo : k1 <= k2
    IN  IF todo # {}
        THEN [r EXCEPT !.pc = "deps", !.idx = k,
                       !.pending = analyzeFileContent(a, imports[k].resolvedPath, r.root)]
        ELSE [r EXCEPT !.pc = "done", !.status = "returned", !.pending = <<>>]

\* analyzeFile from the head of the Level 1 loop over the scanned files
FileAdvanceImporters(a, r) ==
    LET todo == { k \in r.idx..Len(r.allFiles) :
                    r.allFiles[k] # r.entry /\ ~MapHas(r.files, r.allFiles[k]) }
        k == CHOOSE k1 \in todo : \A k2 \in todo : k1 <= k2
    IN  IF todo # {}
        THEN [r EXCEPT !.pc = "importers", !.idx = k,
                       !.pending = analyzeFileContent(a, r.allFiles[k], r.root)]
        ELSE FileAdvanceDeps(a, [r EXCEPT !.idx = 1])

NewInvocation(kind, projectRoot, filePath) ==
    [kind |-> kind, root |-> projectRoot, entry |-> filePath, pc |-> "start",
     status |-> "running", files |-> <<>>, allFiles |-> <<>>, idx |-> 1, pending |-> <<>>]

Threw(r) == [r EXCEPT !.pc = "done", !.status = "threw", !.pending = <<>>]

\* the invocation r of analyzeProject at its first await (or its end), when
\* getAllFiles gave scan
ProjectScanned(a, r, scan) ==
    IF scan.threw THEN Threw(r) ELSE ProjectAdvance(a, [r EXCEPT !.allFiles = scan.files])

ProjectStarted(a, r) == ProjectScanned(a, r, getAllFiles(a, r.root))

\* analyzeProject(projectRoot), up to its first await
StartAnalyzeProject(projectRoot) ==
    LET a == InitializeAnalysis(projectRoot)
    IN  /\ analyzer' = a
        /\ inv' = Append(inv, ProjectStarted(a, NewInvocation("project", projectRoot, None)))
        /\ UNCHANGED <<fs, q, view>>

\* the records of the call r once the value it awaits is stored
WithPending(r) == IF r.pending # <<>> THEN MapSet(r.files, r.pending[1]) ELSE r.files

\* the mutant of FirstPassResumed: the importedBy lists are built while the
\* first pass is still running
FirstPassResumed_EagerSecondPass(a, r) ==
    ProjectAdvance(a, [r EXCEPT !.files = SecondPass(WithPending(r), 1, 1), !.idx = r.idx + 1])

\* the invocation r of analyzeProject after it resumed in the first pass, on the
\* analyzer a
FirstPassResumed(a, r) ==
    LET files == IF r.pending # <<>> THEN MapSet(r.files, r.pending[1]) ELSE r.files
    IN  ProjectAdvance(a, [r EXCEPT !.files = files, !.idx = r.idx + 1])

\* analyzeProject resumes from `await this.analyzeFileContent(...)` in the first pass
ResumeFirstPass(i) ==
    /\ inv[i].pc = "pass1"
    /\ inv' = [inv EXCEPT ![i] = FirstPassResumed(analyzer, inv[i])]
    /\ UNCHANGED <<fs, analyzer, q, view>>

\* the invocation r of analyzeFile at its first await
FileStarted(a, r) ==
    [r EXCEPT !.pc = "entry", !.pending = analyzeFileContent(a, r.entry, r.root)]

\* analyzeFile(filePath, projectRoot), up to its first await
StartAnalyzeFile(filePath, projectRoot) ==
    LET a == InitializeAnalysis(projectRoot)
    IN  /\ analyzer' = a
        /\ inv' = Append(inv, FileStarted(a, NewInvocation("file", projectRoot, filePath)))
        /\ UNCHANGED <<fs, q, view>>

\* the invocation r of analyzeFile after Step 1 when getAllFiles gave scan
EntryScanned(a, r, scan) ==
    IF r.pending = <<>>
    THEN [r EXCEPT !.pc = "done", !.status = "returned"]
    ELSE IF scan.threw
    THEN Threw([r EXCEPT !.files = MapSet(r.files, r.pending[1])])
    ELSE FileAdvanceImporters(a, [r EXCEPT !.files = MapSet(r.files, r.pending[1]),
                                           !.allFiles = scan.files, !.idx = 1])

\* the invocation r of analyzeFile after it resumed with the record of the entry file
EntryResumed(a, r) == EntryScanned(a, r, getAllFiles(a, r.root))

\* analyzeFile resumes with the record of the entry file (Step 1), scans, enters Step 2
ResumeEntry(i) ==
    /\ inv[i].pc = "entry"
    /\ inv' = [inv EXCEPT ![i] = EntryResumed(analyzer, inv[i])]
    /\ UNCHANGED <<fs, analyzer, q, view>>

\* the mutant of ResumeImporter: every scanned file that can be read gets a record
ResumeImporter_All(i) ==
    /\ inv[i].pc = "importers"
    /\ LET r == inv[i]
           files == IF r.pending # <<>> THEN MapSet(r.files, r.pending[1]) ELSE r.files
       IN  inv' = [inv EXCEPT ![i] =
                      FileAdvanceImporters(analyzer, [r EXCEPT !.files = files, !.idx = r.idx + 1])]
    /\ UNCHANGED <<fs, analyzer, q, view>>

\* the invocation r of analyzeFile after it resumed in Step 2
ImporterResumed(a, r) ==
    LET importsCurrentFile ==
            /\ r.pending # <<>>
            /\ \E k \in 1..Len(r.pending[1].imports) :
                  /\ ~r.pending[1].imports[k].isNodeModule
                  /\ r.pending[1].imports[k].resolvedPath = r.entry
        files == IF importsCurrentFile
                 THEN PushImportedBy(MapSet(r.files, r.pending[1]), r.entry, r.allFiles[r.idx])
                 ELSE r.files
    IN  FileAdvanceImporters(a, [r EXCEPT !.files = files, !.idx = r.idx + 1])

\* analyzeFile resumes in Step 2 with the record of a scanned file
ResumeImporter(i) ==
    /\ inv[i].pc = "importers"
    /\ inv' = [inv EXCEPT ![i] = ImporterResumed(analyzer, inv[i])]
    /\ UNCHANGED <<fs, analyzer, q, view>>

\* the invocation r of analyzeFile after it resumed in Step 3
DependencyResumed(a, r) ==
    LET target == r.files[MapIndex(r.files, r.entry)].imports[r.idx].resolvedPath
        files == IF r.pending # <<>>
                 THEN PushImportedBy(MapSet(r.files, r.pending[1]), target, r.entry)
                 ELSE r.files
    IN  FileAdvanceDeps(a, [r EXCEPT !.files = files, !.idx = r.idx + 1])

\* analyzeFile resumes in Step 3 with the record of a dependency of the entry file
ResumeDependency(i) ==
    /\ inv[i].pc = "deps"
    /\ inv' = [inv EXCEPT ![i] = DependencyResumed(analyzer, inv[i])]
    /\ UNCHANGED <<fs, analyzer, q, view>>

----------------------------------------------------------------------------
(* ImportMapPanel.convertToVisualizationData.  A node's position pos is    *)
(* <<>> while x and y are undefined and <<x, y>> once they are set; an     *)
(* absent isCurrentFile (falsy) is written FALSE.                          *)

FileVisNode(fileNode, currentFile) ==
    [id |-> fileNode.path, label |-> PathBasename(fileNode.name), path |-> fileNode.path,
     isNodeModule |-> FALSE, isCurrentFile |-> (currentFile = fileNode.path), pos |-> <<>>]

ModuleVisNode(source) ==
    [id |-> "node_module:" \o source, label |-> source, path |-> source,
     isNodeModule |-> TRUE, isCurrentFile |-> FALSE, pos |-> <<>>]

NodeIds(nodes) == { nodes[k].id : k \in 1..Len(nodes) }

RECURSIVE ConvertStep2(_, _, _, _, _, _)
\* Step 2 of convertToVisualizationData, from import j of record i on
ConvertStep2(files, currentFile, isProjectMode, i, j, data) ==
    IF i > Len(files) THEN data
    ELSE IF j > Len(files[i].imports)
    THEN ConvertStep2(files, currentFile, isProjectMode, i + 1, 1, data)
    ELSE LET importInfo == files[i].imports[j]
             nodeId == files[i].path
             isCurrentFile == (currentFile = files[i].path)
             moduleId == "node_module:" \o importInfo.source
             after ==
                IF importInfo.isNodeModule /\ (isProjectMode \/ isCurrentFile)
                THEN [nodes |-> IF moduleId \in NodeIds(data.nodes) THEN data.nodes
                                ELSE Append(data.nodes, ModuleVisNode(importInfo.source)),
                      edges |-> Append(data.edges, [from |-> moduleId, to |-> nodeId,
                                                    type |-> importInfo.type])]
                ELSE IF importInfo.resolvedPath # None /\ importInfo.resolvedPath # ""
                        /\ MapHas(files, importInfo.resolvedPath)
                THEN [data EXCEPT !.edges = Append(@, [from |-> importInfo.resolvedPath,
                                                       to |-> nodeId,
                                                       type |-> importInfo.type])]
                ELSE data
         IN  ConvertStep2(files, currentFile, isProjectMode, i, j + 1, after)

\* the mutant of convertToVisualizationData: no node is pushed for an external source
convertToVisualizationData_NoModuleNodes(files, currentFile, isProjectMode) ==
    LET data == ConvertStep2(files, currentFile, isProjectMode, 1, 1,
                     [nodes |-> [k \in 1..Len(files) |-> FileVisNode(files[k], currentFile)],
                      edges |-> <<>>])
    IN  [data EXCEPT !.nodes = SelectSeq(data.nodes, LAMBDA n : ~n.isNodeModule)]

\* the mutant of convertToVisualizationData: external imports are shown for every
\* record in both displays
convertToVisualizationData_AllExternals(files, currentFile, isProjectMode) ==
    ConvertStep2(files, currentFile, TRUE, 1, 1,
                 [nodes |-> [k \in 1..Len(files) |-> FileVisNode(files[k], currentFile)],
                  edges |-> <<>>])

convertToVisualizationData(files, currentFile, isProjectMode) ==
    ConvertStep2(files, currentFile, isProjectMode, 1, 1,
                 [nodes |-> [k \in 1..Len(files) |-> FileVisNode(files[k], currentFile)],
                  edges |-> <<>>])

----------------------------------------------------------------------------
(* The script of the webview page (importMapPanel.ts, getHtmlForWebview).  *)
(* Lengths and coordinates are integers counting thousandths of a CSS      *)
(* pixel.  The pan and zoom state keeps its initial value (offsetX = 0,    *)
(* offsetY = 0, scale = 1) and node modules stay hidden (showNodeModules   *)
(* = false).  view.canvas is <<>> until initCanvas has run and             *)
(* <<rect.width, rect.height, devicePixelRatio>> afterwards; view.dragged  *)
(* is 0 for draggedNode = null and the node's index otherwise;             *)
(* view.storage is localStorage, a function from the keys that have an     *)
(* item to the parsed item.                                                *)

Px(n) == 1000 * n

MathMax(a, b) == IF a >= b THEN a ELSE b

MathMin(a, b) == IF a <= b THEN a ELSE b

MathAbs(a) == IF a < 0 THEN 0 - a ELSE a

\* the result of an arithmetic operation that is not a number (index % 0, 0 / 0)
NaN == 0 - Px(1000000)

\* what JSON.parse(JSON.stringify(NaN)) gives back
JsonNull == 0 - Px(2000000)

\* the number a coordinate counts as in arithmetic and comparisons: null counts as 0
ToNumber(c) == IF c = JsonNull THEN 0 ELSE c

MIN_NODE_WIDTH == 60

MIN_NODE_HEIGHT == 30

NODE_PADDING == 20

\* ctx.measureText(text).width for the 11px label font
MeasureText(text) == Px(6 * Len(text))

calculateNodeSize(text) ==
    [width |-> MathMax(Px(MIN_NODE_WIDTH), MeasureText(text) + Px(NODE_PADDING) * 2),
     height |-> Px(MIN_NODE_HEIGHT)]

\* node.x !== undefined && node.y !== undefined
HasPosition(node) == node.pos # <<>>

nodesOverlap(node1, node2) ==
    LET size1 == calculateNodeSize(node1.label)
        size2 == calculateNodeSize(node2.label)
        dx == MathAbs(node1.pos[1] - node2.pos[1])
        dy == MathAbs(node1.pos[2] - node2.pos[2])
    IN  /\ 2 * dx < size1.width + size2.width + 2 * Px(20)
        /\ 2 * dy < size1.height + size2.height + 2 * Px(20)

StorageKey(currentFile) ==
    "importMap_positions_" \o
        (IF currentFile = None \/ currentFile = "" THEN "project" ELSE currentFile)

\* JSON.parse(JSON.stringify({ x: node.x, y: node.y })): an undefined member is
\* dropped, a NaN comes back as null
JsonPosition(pos) ==
    IF pos = <<>> THEN <<>>
    ELSE << IF pos[1] = NaN THEN JsonNull ELSE pos[1],
            IF pos[2] = NaN THEN JsonNull ELSE pos[2] >>

RECURSIVE PositionsOf(_, _, _)
\* the object positions built by the forEach of saveNodePositions
PositionsOf(nodes, k, positions) ==
    IF k > Len(nodes) THEN positions
    ELSE PositionsOf(nodes, k + 1,
            [id \in DOMAIN positions \cup {nodes[k].id} |->
                IF id = nodes[k].id THEN JsonPosition(nodes[k].pos) ELSE positions[id]])

\* saveNodePositions(): the storage after the call
saveNodePositions(v) ==
    IF Len(v.nodes) = 0 THEN v.storage
    ELSE LET storageKey == StorageKey(v.currentFile)
             positions == PositionsOf(v.nodes, 1, <<>>)
         IN  [key \in DOMAIN v.storage \cup {storageKey} |->
                 IF key = storageKey THEN positions ELSE v.storage[key]]

\* clearSavedPositions(): the storage after the call
clearSavedPositions(v) ==
    [key \in DOMAIN v.storage \ {StorageKey(v.currentFile)} |-> v.storage[key]]

\* the mutant of loadNodePositions: the ratio is taken over the smaller of the two sets
loadNodePositions_SmallerSet(v) ==
    LET storageKey == StorageKey(v.currentFile)
    IN  IF storageKey \notin DOMAIN v.storage
        THEN [restored |-> FALSE, nodes |-> v.nodes, storage |-> v.storage]
        ELSE LET positions == v.storage[storageKey]
                 currentNodeIds == NodeIds(v.nodes)
                 savedNodeIds == DOMAIN positions
                 intersection == currentNodeIds \cap savedNodeIds
                 larger == MathMin(Cardinality(currentNodeIds), Cardinality(savedNodeIds))
             IN  IF 10 * Cardinality(intersection) < 7 * larger
                 THEN [restored |-> FALSE, nodes |-> v.nodes,
                       storage |-> clearSavedPositions(v)]
                 ELSE LET nodes == [k \in 1..Len(v.nodes) |->
                                      IF v.nodes[k].id \in savedNodeIds
                                      THEN [v.nodes[k] EXCEPT !.pos = positions[v.nodes[k].id]]
                                      ELSE v.nodes[k]]
                          restored == Cardinality({k \in 1..Len(v.nodes) :
                                                      v.nodes[k].id \in savedNodeIds})
                      IN  [restored |-> restored > 0, nodes |-> nodes, storage |-> v.storage]

\* loadNodePositions(): its return value, the nodes and the storage after the call
loadNodePositions(v) ==
    LET storageKey == StorageKey(v.currentFile)
    IN  IF storageKey \notin DOMAIN v.storage
        THEN [restored |-> FALSE, nodes |-> v.nodes, storage |-> v.storage]
        ELSE LET positions == v.storage[storageKey]
                 currentNodeIds == NodeIds(v.nodes)
                 savedNodeIds == DOMAIN positions
                 intersection == currentNodeIds \cap savedNodeIds
                 larger == MathMax(Cardinality(currentNodeIds), Cardinality(savedNodeIds))
             IN  IF 10 * Cardinality(intersection) < 7 * larger
                 THEN [restored |-> FALSE, nodes |-> v.nodes,
                       storage |-> clearSavedPositions(v)]
                 ELSE LET nodes == [k \in 1..Len(v.nodes) |->
                                      IF v.nodes[k].id \in savedNodeIds
                                      THEN [v.nodes[k] EXCEPT !.pos = positions[v.nodes[k].id]]
                                      ELSE v.nodes[k]]
                          restored == Cardinality({k \in 1..Len(v.nodes) :
                                                      v.nodes[k].id \in savedNodeIds})
                      IN  [restored |-> restored > 0, nodes |-> nodes, storage |-> v.storage]

\* 1000 * Math.cos(angle) of the spiral, by node index (row index + 1) and layer (column layer + 1)
SpiralCos ==
    <<
      <<1000, 878, 540, 71, -416, -801, -990, -936, -654, -211, 284, 709, 960, 977, 754, 347,
         -146, -602, -911, -997, -839, -476, 4, 483, 844, 998, 907, 595, 137, -355, -760, -978,
         -958, -702, -275, 219, 660, 940, 989, 796, 408, -80, -548, -882, -1000, -873, -533, -62,
         424, 806, 991, 933, 647, 202, -292, -715, -963, -975, -748, -338, 154, 609, 915, 996,
         834, 468, -13, -491, -849, -998, -904, -588, -128, 363, 765, 980, 955, 696, 267, -228,
         -667, -943, -987, -790, -400, 88, 555, 886, 1000, 869, 525, 53, -432, -812, -992, -930,
         -640, -193, 301, 721, 965>>,
      <<707, 428, 47, -369, -732, -958, -985, -800, -435, 29, 490, 840, 996, 920, 628, 188, -298,
         -714, -961, -978, -761, -362, 125, 582, 899, 999, 859, 511, 39, -442, -816, -993, -929,
         -640, -195, 297, 717, 963, 975, 749, 342, -149, -604, -911, -997, -840, -479, 0, 478,
         840, 997, 911, 603, 148, -343, -751, -975, -962, -713, -291, 203, 647, 933, 991, 808,
         427, -58, -529, -871, -1000, -885, -553, -87, 401, 791, 987, 943, 668, 230, -265, -694,
         -954, -981, -768, -367, 123, 584, 901, 999, 852, 497, 20, -461, -830, -996, -918, -616,
         -163, 330, 742, 972>>,
      <<0, -185, -459, -736, -937, -998, -884, -598, -188, 268, 672, 934, 994, 833, 484, 23,
         -444, -811, -990, -940, -670, -242, 244, 672, 942, 989, 800, 421, -59, -525, -866,
         -1000, -893, -572, -113, 373, 770, 981, 955, 699, 274, -218, -657, -937, -990, -804,
         -423, 61, 530, 871, 1000, 886, 557, 93, -394, -785, -986, -946, -677, -243, 250, 683,
         949, 984, 780, 385, -103, -566, -891, -1000, -864, -518, -46, 438, 815, 993, 929, 638,
         192, -301, -721, -965, -973, -744, -334, 158, 612, 916, 996, 834, 467, -13, -490, -848,
         -998, -905, -591, -132, 359, 762, 979>>,
      <<-707, -727, -841, -957, -999, -919, -696, -348, 73, 490, 820, 988, 954, 717, 324, -142,
         -579, -889, -1000, -885, -567, -118, 359, 754, 974, 967, 733, 327, -157, -604, -909,
         -998, -851, -500, -31, 447, 817, 993, 931, 645, 205, -285, -706, -958, -979, -764, -365,
         123, 580, 898, 999, 858, 510, 38, -443, -817, -993, -929, -639, -194, 298, 717, 963,
         975, 750, 343, -147, -602, -910, -997, -842, -482, -4, 474, 837, 997, 914, 608, 154,
         -337, -746, -974, -964, -720, -300, 193, 639, 929, 993, 814, 438, -46, -518, -864,
         -1000, -891, -565, -101, 387, 781, 985>>,
      <<-1000, -992, -999, -988, -909, -728, -440, -70, 329, 685, 927, 999, 877, 577, 155, -303,
         -699, -947, -989, -813, -455, 7, 469, 825, 993, 933, 658, 230, -253, -677, -943, -989,
         -801, -425, 52, 517, 860, 999, 901, 588, 134, -351, -753, -975, -964, -721, -306, 183,
         629, 923, 995, 828, 461, -17, -491, -847, -998, -908, -599, -145, 344, 750, 975, 963,
         719, 300, -192, -637, -928, -993, -818, -445, 37, 510, 859, 999, 897, 577, 116, -372,
         -771, -981, -954, -694, -265, 228, 665, 941, 988, 794, 407, -79, -546, -880, -1000,
         -876, -539, -70, 416, 800, 990>>,
      <<-707, -878, -889, -824, -681, -450, -141, 214, 562, 839, 987, 965, 766, 417, -19, -455,
         -802, -984, -958, -726, -335, 132, 572, 885, 1000, 889, 576, 130, -346, -744, -970,
         -971, -746, -347, 134, 584, 897, 999, 866, 527, 63, -416, -796, -988, -944, -675, -245,
         244, 674, 944, 988, 794, 411, -72, -537, -874, -1000, -886, -558, -96, 390, 781, 984,
         950, 686, 256, -235, -670, -943, -988, -793, -407, 78, 544, 879, 1000, 879, 545, 78,
         -407, -794, -988, -942, -668, -231, 262, 691, 952, 982, 773, 376, -112, -573, -895,
         -999, -860, -512, -39, 443, 818, 993>>,
      <<0, -428, -540, -497, -349, -118, 172, 480, 757, 945, 998, 890, 626, 243, -192, -596,
         -886, -1000, -908, -626, -209, 256, 666, 933, 994, 834, 487, 29, -437, -804, -988, -946,
         -685, -266, 216, 648, 929, 994, 826, 464, -8, -478, -836, -996, -920, -627, -184, 303,
         718, 962, 977, 758, 359, -127, -582, -898, -999, -860, -515, -46, 434, 810, 992, 934,
         651, 212, -279, -702, -957, -980, -767, -368, 119, 578, 897, 999, 859, 512, 40, -441,
         -816, -993, -929, -640, -196, 296, 716, 962, 975, 752, 345, -145, -600, -909, -998,
         -844, -485, -8, 471, 835, 996>>,
      <<707, 185, -47, -71, 36, 229, 468, 708, 900, 996, 959, 776, 461, 60, -360, -720, -948,
         -993, -839, -514, -79, 375, 751, 968, 976, 770, 393, -72, -523, -857, -998, -913, -619,
         -183, 295, 707, 955, 983, 781, 398, -79, -538, -871, -1000, -893, -575, -122, 361, 758,
         976, 963, 720, 306, -181, -625, -920, -996, -833, -471, 4, 478, 838, 997, 916, 616, 167,
         -322, -733, -968, -970, -739, -329, 160, 611, 914, 997, 839, 478, 2, -475, -837, -997,
         -915, -612, -161, 329, 740, 971, 967, 729, 314, -177, -626, -922, -995, -826, -457, 23,
         498, 851, 999>>,
      <<1000, 727, 459, 369, 416, 548, 718, 878, 982, 989, 872, 628, 279, -124, -516, -824, -986,
         -963, -753, -392, 52, 488, 825, 991, 946, 697, 295, -173, -604, -902, -1000, -873, -549,
         -99, 373, 762, 976, 966, 732, 330, -150, -596, -903, -999, -862, -522, -59, 418, 796,
         987, 945, 679, 252, -235, -667, -940, -990, -803, -426, 54, 521, 863, 999, 896, 579,
         122, -364, -763, -978, -959, -709, -289, 201, 643, 930, 993, 817, 444, -37, -508, -857,
         -999, -900, -583, -126, 362, 763, 979, 958, 705, 282, -210, -651, -934, -991, -808,
         -429, 54, 524, 867, 1000>>,
      <<707, 992, 841, 736, 732, 801, 898, 977, 997, 924, 741, 452, 87, -304, -657, -906, -1000,
         -912, -652, -263, 182, 593, 888, 1000, 903, 615, 193, -271, -679, -939, -992, -825,
         -474, -15, 449, 811, 990, 943, 680, 260, -220, -650, -930, -994, -827, -466, 4, 473,
         831, 995, 925, 636, 197, -288, -706, -957, -981, -772, -379, 103, 562, 887, 1000, 875,
         540, 77, -405, -790, -986, -946, -679, -249, 241, 673, 944, 987, 793, 409, -75, -540,
         -876, -1000, -883, -553, -90, 395, 785, 985, 948, 681, 250, -242, -675, -945, -986,
         -789, -400, 85, 550, 882, 1000>>
    >>

\* 1000 * Math.sin(angle) of the spiral, by node index and layer
SpiralSin ==
    <<
      <<0, 479, 841, 997, 909, 598, 141, -351, -757, -978, -959, -706, -279, 215, 657, 938, 989,
         798, 412, -75, -544, -880, -1000, -875, -537, -66, 420, 804, 991, 935, 650, 206, -288,
         -712, -961, -976, -751, -342, 150, 606, 913, 997, 837, 472, -9, -487, -846, -998, -906,
         -591, -132, 359, 763, 979, 956, 699, 271, -224, -664, -941, -988, -793, -404, 84, 551,
         884, 1000, 871, 529, 57, -428, -809, -992, -932, -644, -198, 296, 718, 964, 974, 745,
         334, -159, -613, -917, -996, -832, -464, 18, 495, 851, 999, 902, 584, 124, -367, -768,
         -981, -954, -693, -262>>,
      <<707, 904, 999, 929, 681, 288, -172, -600, -900, -1000, -872, -543, -87, 391, 778, 982,
         954, 700, 278, -210, -649, -932, -992, -813, -439, 42, 513, 860, 999, 897, 577, 118,
         -370, -769, -981, -955, -697, -270, 223, 662, 940, 989, 797, 412, -74, -542, -878,
         -1000, -878, -543, -74, 412, 798, 989, 939, 660, 220, -274, -701, -957, -979, -763,
         -360, 131, 589, 904, 998, 849, 492, 14, -466, -833, -996, -916, -612, -159, 334, 744,
         973, 964, 720, 299, -195, -641, -930, -992, -812, -433, 52, 524, 868, 1000, 887, 558,
         92, -397, -788, -987, -944, -671, -233>>,
      <<1000, 983, 889, 677, 349, -57, -468, -801, -982, -964, -741, -356, 109, 553, 875, 1000,
         896, 586, 139, -341, -743, -970, -970, -740, -335, 150, 600, 907, 998, 851, 500, 28,
         -450, -820, -994, -928, -638, -195, 296, 715, 962, 976, 754, 350, -139, -595, -906,
         -998, -848, -492, -16, 463, 830, 996, 919, 619, 169, -323, -736, -970, -968, -731, -315,
         177, 626, 923, 995, 824, 453, -29, -503, -855, -999, -899, -580, -119, 370, 770, 981,
         954, 693, 264, -230, -668, -943, -987, -791, -402, 86, 552, 884, 1000, 872, 530, 60,
         -426, -807, -991, -933, -648, -204>>,
      <<707, 686, 540, 291, -36, -395, -718, -937, -997, -871, -573, -154, 301, 697, 946, 990,
         815, 458, -4, -466, -824, -993, -933, -657, -228, 256, 680, 945, 988, 797, 418, -61,
         -526, -866, -1000, -895, -576, -119, 366, 764, 979, 959, 708, 287, -204, -645, -931,
         -992, -814, -439, 42, 513, 860, 999, 897, 577, 117, -371, -769, -981, -955, -697, -270,
         223, 661, 939, 989, 798, 414, -72, -539, -876, -1000, -880, -547, -80, 407, 794, 988,
         942, 666, 228, -266, -694, -954, -981, -769, -370, 120, 580, 899, 999, 855, 503, 28,
         -454, -825, -995, -922, -624, -174>>,
      <<0, 128, 47, -153, -416, -685, -898, -998, -944, -729, -376, 55, 481, 817, 988, 953, 715,
         321, -146, -582, -891, -1000, -883, -565, -117, 359, 753, 973, 968, 736, 332, -151,
         -598, -905, -999, -856, -510, -43, 435, 809, 991, 936, 658, 222, -267, -693, -952, -983,
         -778, -385, 100, 561, 887, 1000, 871, 532, 65, -418, -801, -989, -939, -661, -224, 268,
         695, 954, 981, 771, 374, -114, -575, -896, -999, -860, -512, -40, 442, 817, 993, 928,
         637, 192, -301, -720, -964, -974, -746, -337, 154, 607, 913, 997, 838, 474, -4, -482,
         -842, -998, -910, -600, -144>>,
      <<-707, -479, -459, -567, -732, -893, -990, -977, -827, -544, -160, 261, 643, 909, 1000,
         890, 597, 176, -285, -688, -942, -991, -820, -466, -5, 458, 818, 992, 938, 668, 243,
         -239, -666, -938, -991, -812, -441, 34, 501, 850, 998, 910, 605, 156, -330, -738, -969,
         -970, -738, -330, 157, 607, 912, 997, 843, 487, 13, -465, -830, -995, -921, -624, -177,
         313, 728, 967, 972, 742, 333, -157, -609, -914, -997, -839, -477, 0, 477, 839, 997, 913,
         608, 155, -335, -745, -973, -965, -723, -305, 187, 634, 926, 994, 819, 446, -36, -510,
         -859, -999, -896, -575, -114>>,
      <<-1000, -904, -841, -868, -937, -993, -985, -877, -654, -327, 63, 456, 780, 970, 981, 803,
         464, 27, -419, -780, -978, -967, -746, -360, 107, 551, 873, 1000, 900, 595, 153, -325,
         -728, -964, -976, -762, -369, 110, 564, 886, 1000, 878, 549, 90, -391, -779, -983, -953,
         -696, -274, 215, 652, 933, 992, 813, 439, -40, -510, -857, -999, -901, -586, -130, 357,
         759, 977, 960, 712, 291, -199, -642, -930, -993, -816, -442, 39, 511, 859, 999, 897,
         578, 119, -370, -768, -981, -955, -698, -272, 221, 660, 938, 989, 800, 416, -68, -537,
         -875, -1000, -882, -550, -84>>,
      <<-707, -983, -999, -997, -999, -973, -884, -706, -435, -91, 284, 631, 887, 998, 933, 694,
         320, -122, -544, -858, -997, -927, -660, -249, 217, 638, 919, 997, 852, 515, 61, -408,
         -785, -983, -955, -707, -295, 186, 624, 918, 997, 843, 491, 23, -450, -818, -993, -933,
         -652, -216, 271, 694, 952, 983, 780, 391, -92, -553, -882, -1000, -878, -546, -83, 401,
         788, 986, 947, 680, 249, -241, -674, -944, -987, -792, -405, 79, 544, 878, 1000, 880,
         547, 82, -403, -791, -987, -944, -673, -238, 254, 685, 950, 984, 780, 387, -100, -563,
         -889, -1000, -867, -524, -54>>,
      <<0, -686, -889, -929, -909, -836, -696, -478, -188, 150, 490, 779, 960, 992, 857, 566,
         167, -269, -658, -920, -999, -873, -564, -135, 325, 718, 956, 985, 797, 432, -31, -488,
         -836, -995, -928, -648, -219, 260, 681, 944, 989, 803, 430, -44, -508, -853, -998, -909,
         -605, -158, 327, 734, 968, 972, 745, 341, -144, -595, -905, -999, -854, -505, -35, 443,
         816, 993, 931, 647, 207, -283, -705, -957, -980, -766, -368, 119, 577, 896, 999, 861,
         515, 45, -436, -812, -992, -932, -647, -205, 287, 709, 959, 978, 759, 357, -132, -589,
         -903, -999, -852, -498, -24>>,
      <<707, -128, -540, -677, -681, -598, -440, -211, 73, 382, 672, 892, 996, 953, 754, 423, 11,
         -409, -758, -965, -983, -805, -461, -19, 429, 789, 981, 962, 734, 344, -123, -565, -881,
         -1000, -894, -585, -142, 334, 734, 966, 975, 760, 368, -110, -563, -885, -1000, -881,
         -556, -99, 381, 772, 980, 958, 708, 291, -196, -636, -925, -995, -827, -463, 12, 485,
         841, 997, 914, 613, 164, -324, -734, -969, -970, -739, -330, 158, 609, 913, 997, 841,
         483, 8, -469, -833, -996, -919, -620, -171, 319, 732, 968, 970, 738, 326, -164, -614,
         -916, -996, -835, -471, 6>>
    >>

\* 1000 * Math.cos(fallbackAngle), by otherNodes.length (row) and node index (column index + 1)
FallbackCos ==
    <<
      <<1000>>,
      <<1000, -1000>>,
      <<1000, -500, -500>>,
      <<1000, 0, -1000, 0>>,
      <<1000, 309, -809, -809, 309>>,
      <<1000, 500, -500, -1000, -500, 500>>,
      <<1000, 623, -223, -901, -901, -223, 623>>,
      <<1000, 707, 0, -707, -1000, -707, 0, 707>>,
      <<1000, 766, 174, -500, -940, -940, -500, 174, 766>>,
      <<1000, 809, 309, -309, -809, -1000, -809, -309, 309, 809>>
    >>

\* 1000 * Math.sin(fallbackAngle), by otherNodes.length and node index
FallbackSin ==
    <<
      <<0>>,
      <<0, 0>>,
      <<0, 866, -866>>,
      <<0, 1000, 0, -1000>>,
      <<0, 951, 588, -588, -951>>,
      <<0, 866, 866, 0, -866, -866>>,
      <<0, 782, 975, 434, -434, -975, -782>>,
      <<0, 707, 1000, 707, 0, -707, -1000, -707>>,
      <<0, 643, 985, 866, 342, -342, -866, -985, -643>>,
      <<0, 588, 951, 951, 588, 0, -588, -951, -951, -588>>
    >>

\* x - width/2 < margin || x + width/2 > centerX * 2 - margin || (the same for y)
OutOfBounds(x, y, nodeSize, centerX, centerY) ==
    \/ 2 * x - nodeSize.width < 2 * Px(100)
    \/ 2 * x + nodeSize.width > 2 * (centerX * 2 - Px(100))
    \/ 2 * y - nodeSize.height < 2 * Px(100)
    \/ 2 * y + nodeSize.height > 2 * (centerY * 2 - Px(100))

\* the mutant of SpiralStep: a position is checked against the current file node only
SpiralStep_NoNeighbourCheck(centerX, centerY, currentNode, otherNodes, k, s) ==
    IF s.validPosition \/ s.attempts >= 100 THEN s
    ELSE LET distance == 150 + s.layer * 30
             x == centerX + SpiralCos[k][s.layer + 1] * distance
             y == centerY + SpiralSin[k][s.layer + 1] * distance
             nodeSize == calculateNodeSize(otherNodes[k].label)
             node == [otherNodes[k] EXCEPT !.pos = <<x, y>>]
             validPosition ==
                ~nodesOverlap(node, currentNode)
         IN  IF OutOfBounds(x, y, nodeSize, centerX, centerY)
             THEN [s EXCEPT !.layer = s.layer + 1, !.attempts = s.attempts + 1]
             ELSE [attempts |-> s.attempts + 1,
                   layer |-> IF ~validPosition /\ s.attempts % 8 = 7
                             THEN s.layer + 1 ELSE s.layer,
                   validPosition |-> validPosition,
                   pos |-> <<x, y>>]

\* one turn of the while loop of layoutNodes for otherNodes[k - 1], from the loop
\* state s (attempts, layer, validPosition and the node's position)
SpiralStep(centerX, centerY, currentNode, otherNodes, k, s) ==
    IF s.validPosition \/ s.attempts >= 100 THEN s
    ELSE LET distance == 150 + s.layer * 30
             x == centerX + SpiralCos[k][s.layer + 1] * distance
             y == centerY + SpiralSin[k][s.layer + 1] * distance
             nodeSize == calculateNodeSize(otherNodes[k].label)
             node == [otherNodes[k] EXCEPT !.pos = <<x, y>>]
             validPosition ==
                /\ ~nodesOverlap(node, currentNode)
                /\ \A i \in 1..(k - 1) :
                      HasPosition(otherNodes[i]) => ~nodesOverlap(node, otherNodes[i])
         IN  IF OutOfBounds(x, y, nodeSize, centerX, centerY)
             THEN [s EXCEPT !.layer = s.layer + 1, !.attempts = s.attempts + 1]
             ELSE [attempts |-> s.attempts + 1,
                   layer |-> IF ~validPosition /\ s.attempts % 8 = 7
                             THEN s.layer + 1 ELSE s.layer,
                   validPosition |-> validPosition,
                   pos |-> <<x, y>>]

RECURSIVE SpiralTurns(_, _, _, _, _, _, _)
\* the loop state n turns of the while loop after the loop state s
SpiralTurns(centerX, centerY, currentNode, otherNodes, k, s, n) ==
    IF n = 1 THEN SpiralStep(centerX, centerY, currentNode, otherNodes, k, s)
    ELSE CHOOSE r \in
            { SpiralTurns(centerX, centerY, currentNode, otherNodes, k, t, n - n \div 2) :
                t \in { SpiralTurns(centerX, centerY, currentNode, otherNodes, k, s,
                                    n \div 2) } } : TRUE

\* the while loop of layoutNodes for otherNodes[k - 1]: the loop state it ends in
\* (attempts < 100 ends it after 100 turns at the latest)
SpiralLoop(centerX, centerY, currentNode, otherNodes, k) ==
    SpiralTurns(centerX, centerY, currentNode, otherNodes, k,
                [attempts |-> 0, layer |-> 0, validPosition |-> FALSE,
                 pos |-> otherNodes[k].pos], 100)

RECURSIVE SpiralPlace_NoFallback(_, _, _, _, _)
\* the mutant of SpiralPlace: a node whose loop found no valid position keeps what
\* the loop left in node.x and node.y
SpiralPlace_NoFallback(centerX, centerY, currentNode, otherNodes, k) ==
    IF k > Len(otherNodes) THEN otherNodes
    ELSE LET found == SpiralLoop(centerX, centerY, currentNode, otherNodes, k)
         IN  SpiralPlace_NoFallback(centerX, centerY, currentNode,
                                    [otherNodes EXCEPT ![k].pos = found.pos], k + 1)

RECURSIVE SpiralPlace(_, _, _, _, _)
\* otherNodes.forEach((node, index) => ...) of layoutNodes, from index k - 1 on
SpiralPlace(centerX, centerY, currentNode, otherNodes, k) ==
    IF k > Len(otherNodes) THEN otherNodes
    ELSE LET found == SpiralLoop(centerX, centerY, currentNode, otherNodes, k)
             fallbackDistance == 150 + ((k - 1) \div 8) * 30
             fallback == << centerX + FallbackCos[Len(otherNodes)][k] * fallbackDistance,
                            centerY + FallbackSin[Len(otherNodes)][k] * fallbackDistance >>
             pos == IF found.validPosition THEN found.pos ELSE fallback
         IN  SpiralPlace(centerX, centerY, currentNode,
                         [otherNodes EXCEPT ![k].pos = pos], k + 1)

\* the index in nodes of nodes.find(n => n.isCurrentFile), 0 when there is none
CurrentNodeIndex(nodes) ==
    IF \E k \in 1..Len(nodes) : nodes[k].isCurrentFile
    THEN CHOOSE k \in 1..Len(nodes) :
            nodes[k].isCurrentFile /\ \A j \in 1..(k - 1) : ~nodes[j].isCurrentFile
    ELSE 0

\* the nodes after the members of the list placed (a filter of nodes, whose
\* objects it shares) got their positions
WithPlaced(nodes, placed) ==
    [k \in 1..Len(nodes) |->
        IF \E j \in 1..Len(placed) : placed[j].id = nodes[k].id
        THEN [nodes[k] EXCEPT !.pos =
                 placed[CHOOSE j \in 1..Len(placed) : placed[j].id = nodes[k].id].pos]
        ELSE nodes[k]]

\* the grid branch of layoutNodes for nodes[index + 1]
GridPosition(index, centerX, centerY) ==
    LET maxX == centerX * 2 - Px(100)
        maxY == centerY * 2 - Px(100)
        cols == (maxX - Px(100) * 2) \div Px(150)
        x == IF cols = 0 THEN NaN
             ELSE Px(100) + Px(index % MathAbs(cols)) * 150 + Px(75)
        \* Math.floor(index / cols) * 80, NaN for 0 / 0; index / 0 is Infinity otherwise
        rowTimes80 == IF cols > 0 THEN Px(index \div cols) * 80
                      ELSE IF cols < 0
                      THEN 0 - Px((index + MathAbs(cols) - 1) \div MathAbs(cols)) * 80
                      ELSE NaN
        y == IF cols = 0
             THEN IF index = 0 THEN NaN ELSE maxY - Px(30)
             ELSE LET y0 == Px(100) + rowTimes80 + Px(40)
                  IN  IF y0 > maxY THEN maxY - Px(30) ELSE y0
    IN  << IF x # NaN /\ x > maxX THEN maxX - Px(50) ELSE x, y >>

\* layoutNodes(forceNew): the nodes and the storage after the call
layoutNodes(v, forceNew) ==
    LET centerX == (Px(v.canvas[1]) * v.canvas[3]) \div (2 * v.canvas[3])
        centerY == (Px(v.canvas[2]) * v.canvas[3]) \div (2 * v.canvas[3])
        loaded == loadNodePositions(v)
        c == CurrentNodeIndex(v.nodes)
    IN  IF Len(v.nodes) = 0 THEN [nodes |-> v.nodes, storage |-> v.storage]
        ELSE IF ~forceNew /\ loaded.restored
        THEN [nodes |-> loaded.nodes, storage |-> loaded.storage]
        ELSE LET storage == IF forceNew THEN v.storage ELSE loaded.storage
                 nodes == IF forceNew THEN v.nodes ELSE loaded.nodes
             IN  IF c # 0
                 THEN LET currentNode == [nodes[c] EXCEPT !.pos = <<centerX, centerY>>]
                          otherNodes == SelectSeq(nodes, LAMBDA n : ~n.isCurrentFile)
                          placed == SpiralPlace(centerX, centerY, currentNode, otherNodes, 1)
                      IN  [nodes |-> WithPlaced([nodes EXCEPT ![c] = currentNode], placed),
                           storage |-> storage]
                 ELSE [nodes |-> [k \in 1..Len(nodes) |->
                                    [nodes[k] EXCEPT !.pos =
                                        GridPosition(k - 1, centerX, centerY)]],
                       storage |-> storage]

\* the mutant of layoutNodesInRows: all nodes of a group go into one row
layoutNodesInRows_OneRow(rowNodes, centerX, startY, horizontalSpacing, verticalSpacing) ==
    [k \in 1..Len(rowNodes) |->
        [rowNodes[k] EXCEPT !.pos =
            << centerX - ((Len(rowNodes) - 1) * horizontalSpacing) \div 2
                  + (k - 1) * horizontalSpacing,
               startY >>]]

\* layoutNodesInRows(nodes, centerX, startY, horizontalSpacing, verticalSpacing)
layoutNodesInRows(rowNodes, centerX, startY, horizontalSpacing, verticalSpacing) ==
    [k \in 1..Len(rowNodes) |->
        LET row == (k - 1) \div 8
            index == (k - 1) % 8
            rowLength == MathMin(row * 8 + 8, Len(rowNodes)) - row * 8
            rowWidth == (rowLength - 1) * horizontalSpacing
            rowStartX == centerX - rowWidth \div 2
        IN  [rowNodes[k] EXCEPT !.pos = << rowStartX + index * horizontalSpacing,
                                           startY + row * verticalSpacing >>]]

\* Math.ceil(n / 8)
RowsOf(n) == (n + 7) \div 8

\* Math.ceil(Math.sqrt(n)) for n >= 1
CeilSqrt(n) == CHOOSE c \in 1..n : c * c >= n /\ (c - 1) * (c - 1) < n

\* edges.some(edge => edge.from === from && edge.to === to)
HasEdge(edges, from, to) ==
    \E k \in 1..Len(edges) : edges[k].from = from /\ edges[k].to = to

\* layoutHierarchical(): the nodes after the call
layoutHierarchical(v) ==
    LET centerX == (Px(v.canvas[1]) * v.canvas[3]) \div (2 * v.canvas[3])
        centerY == (Px(v.canvas[2]) * v.canvas[3]) \div (2 * v.canvas[3])
        verticalSpacing == Px(100)
        horizontalSpacing == Px(160)
        c == CurrentNodeIndex(v.nodes)
    IN  IF Len(v.nodes) = 0 THEN v.nodes
        ELSE IF c = 0 THEN layoutNodes(v, TRUE).nodes
        ELSE
        LET currentNode == [v.nodes[c] EXCEPT !.pos = <<centerX, centerY>>]
            rest == SelectSeq(v.nodes, LAMBDA n : ~n.isCurrentFile)
            thisImportsCurrentFile(n) == HasEdge(v.edges, currentNode.id, n.id)
            currentFileImportsThis(n) == HasEdge(v.edges, n.id, currentNode.id)
            nodeModules == SelectSeq(rest, LAMBDA n : n.isNodeModule)
            nodesImportingCurrent ==
                SelectSeq(rest, LAMBDA n : ~n.isNodeModule /\ thisImportsCurrentFile(n))
            nodesImportedByCurrent ==
                SelectSeq(rest, LAMBDA n : /\ ~n.isNodeModule
                                           /\ ~thisImportsCurrentFile(n)
                                           /\ currentFileImportsThis(n))
            otherNodes ==
                SelectSeq(rest, LAMBDA n : /\ ~n.isNodeModule
                                           /\ ~thisImportsCurrentFile(n)
                                           /\ ~currentFileImportsThis(n))
            numRowsAbove == RowsOf(Len(nodesImportingCurrent))
            numRowsImported == RowsOf(Len(nodesImportedByCurrent))
            above == layoutNodesInRows(nodesImportingCurrent, centerX,
                         centerY - verticalSpacing * numRowsAbove,
                         horizontalSpacing, verticalSpacing)
            below == layoutNodesInRows(nodesImportedByCurrent, centerX,
                         centerY + verticalSpacing, horizontalSpacing, verticalSpacing)
            modules == layoutNodesInRows(nodeModules, centerX,
                         centerY + verticalSpacing * (1 + numRowsImported),
                         horizontalSpacing, verticalSpacing)
            cols == CeilSqrt(Len(otherNodes))
            startX == centerX + horizontalSpacing * 2
            startY == centerY
                        - (((Len(otherNodes) + cols - 1) \div cols - 1) * Px(80)) \div 2
            side == [k \in 1..Len(otherNodes) |->
                        [otherNodes[k] EXCEPT !.pos =
                            << startX + ((k - 1) % cols) * Px(150),
                               startY + ((k - 1) \div cols) * Px(80) >>]]
        IN  WithPlaced([v.nodes EXCEPT ![c] = currentNode],
                       above \o below \o modules \o side)

\* organizeLayout()
organizeLayout(v) ==
    LET organized == [v EXCEPT !.nodes = layoutHierarchical(v)]
    IN  [organized EXCEPT !.storage = saveNodePositions(organized)]

\* initCanvas(), with the size rect and the devicePixelRatio the page has now
initCanvas(v, rect, devicePixelRatio) ==
    LET sized == [v EXCEPT !.canvas = <<rect[1], rect[2], devicePixelRatio>>]
        hasPositions == /\ Len(v.nodes) > 0
                        /\ \A k \in 1..Len(v.nodes) : HasPosition(v.nodes[k])
        laid == layoutNodes(sized, FALSE)
    IN  IF hasPositions THEN sized
        ELSE [sized EXCEPT !.nodes = laid.nodes, !.storage = laid.storage]

\* getNodeSize(node): the base size, a tenth larger while the node is dragged
getNodeSize(v, k) ==
    LET baseSize == calculateNodeSize(v.nodes[k].label)
    IN  IF v.dragged = k
        THEN [width |-> (baseSize.width * 11) \div 10,
              height |-> (baseSize.height * 11) \div 10]
        ELSE baseSize

\* the index in nodes of getNodeAt(x, y), 0 when no node is there
getNodeAt(v, x, y) ==
    LET hit(k) ==
            /\ ~v.nodes[k].isNodeModule
            /\ HasPosition(v.nodes[k])
            /\ v.nodes[k].pos[1] # NaN /\ v.nodes[k].pos[2] # NaN
            /\ 2 * x >= 2 * ToNumber(v.nodes[k].pos[1]) - getNodeSize(v, k).width
            /\ 2 * x <= 2 * ToNumber(v.nodes[k].pos[1]) + getNodeSize(v, k).width
            /\ 2 * y >= 2 * ToNumber(v.nodes[k].pos[2]) - getNodeSize(v, k).height
            /\ 2 * y <= 2 * ToNumber(v.nodes[k].pos[2]) + getNodeSize(v, k).height
    IN  IF \E k \in 1..Len(v.nodes) : hit(k)
        THEN CHOOSE k \in 1..Len(v.nodes) : hit(k) /\ \A j \in 1..(k - 1) : ~hit(j)
        ELSE 0

\* the mousedown handler, with the mouse at (x, y)
mousedown(v, x, y) ==
    LET k == getNodeAt(v, x, y)
    IN  IF k # 0 THEN [v EXCEPT !.dragged = k, !.nodeStart = v.nodes[k].pos] ELSE v

\* the mousemove handler, with the mouse deltaX, deltaY away from where the drag began
mousemove(v, deltaX, deltaY) ==
    IF v.dragged = 0 THEN v
    ELSE LET newX == ToNumber(v.nodeStart[1]) + deltaX
             newY == ToNumber(v.nodeStart[2]) + deltaY
             nodeSize == getNodeSize(v, v.dragged)
             marginX == nodeSize.width \div 2 + Px(20)
             marginY == nodeSize.height \div 2 + Px(20)
             minX == marginX
             maxX == Px(v.canvas[1]) * v.canvas[3] - marginX
             minY == marginY
             maxY == Px(v.canvas[2]) * v.canvas[3] - marginY
         IN  [v EXCEPT !.nodes[v.dragged].pos =
                 << MathMax(minX, MathMin(maxX, newX)), MathMax(minY, MathMin(maxY, newY)) >>]

\* the mouseup handler
mouseup(v) ==
    IF v.dragged # 0
    THEN [v EXCEPT !.dragged = 0, !.nodeStart = <<>>, !.storage = saveNodePositions(v)]
    ELSE v

----------------------------------------------------------------------------
(* State after construction.                                               *)

\* the field initialisers of class ImportAnalyzer
AnalyzerInit ==
    [projectRoot |-> "", nuxtSrcDir |-> "src", projectType |-> "mixed",
     supportedExtensions |-> <<>>, gitignoreParser |-> NullParser]

\* no helper has been called directly yet
NoCall == [op |-> "none"]

\* no webview script is running yet
ViewInit ==
    [loaded |-> FALSE, nodes |-> <<>>, edges |-> <<>>, currentFile |-> None,
     canvas |-> <<>>, dragged |-> 0, nodeStart |-> <<>>, storage |-> <<>>]

(* ==== specifications ==== *)

----------------------------------------------------------------------------
(* Specification SpecIgnore: new GitignoreParser(root) and direct calls of *)
(* shouldIgnore, over .gitignore files of at most MaxRules lines.          *)

MaxRules == 3

Root == "/r"

IgnoreLines ==
    {"*.log", "!important.log", "logs/", "/a.log", "# note", " !a.log ", "*.log/", "!*.log/"}

RECURSIVE SeqsUpTo(_, _)
\* the sequences over S of length at most n
SeqsUpTo(S, n) ==
    IF n = 0 THEN {<<>>}
    ELSE LET shorter == SeqsUpTo(S, n - 1)
         IN  shorter \cup { Append(t, x) : t \in shorter, x \in S }

IgnoreTree(lines) ==
    [p \in {"/r", "/r/.gitignore", "/r/a.log", "/r/important.log", "/r/logs",
            "/r/logs/important.log", "/r/logs/a.log"} |->
        IF p \in {"/r", "/r/logs"} THEN DirEntry
        ELSE IF p = "/r/.gitignore" THEN TextFile(lines)
        ELSE SourceFile(<<>>)]

IgnoreQueries ==
    {"/r/a.log", "/r/important.log", "/r/logs", "/r/logs/important.log", "/r/logs/a.log",
     "/r/ghost.log"}

InitIgnore ==
    /\ fs \in { IgnoreTree(lines) : lines \in SeqsUpTo(IgnoreLines, MaxRules) }
    /\ analyzer = AnalyzerInit
    /\ inv = <<>>
    /\ q = NoCall
    /\ view = ViewInit

\* this.gitignoreParser = new GitignoreParser(projectRoot)
ConstructParser ==
    /\ analyzer.gitignoreParser.isNull
    /\ analyzer' = [analyzer EXCEPT !.gitignoreParser = GitignoreParser(Root)]
    /\ UNCHANGED <<fs, inv, q, view>>

\* this.gitignoreParser.shouldIgnore(p)
CallShouldIgnore ==
    /\ ~analyzer.gitignoreParser.isNull
    /\ \E p \in IgnoreQueries :
          q' = [op |-> "shouldIgnore", path |-> p,
                result |-> shouldIgnore(analyzer.gitignoreParser, p)]
    /\ UNCHANGED <<fs, analyzer, inv, view>>

NextIgnore == ConstructParser \/ CallShouldIgnore

SpecIgnore == InitIgnore /\ [][NextIgnore]_vars

\* the rules shouldIgnore applies to a path: directory-only rules only to directories
ApplicableMatches(parser, filePath) ==
    { i \in 1..Len(parser.patterns) :
        /\ (parser.patterns[i].isDirectory => IsDirectory(filePath))
        /\ matchesPattern(PathRelative(parser.projectRoot, filePath),
                          parser.patterns[i].pattern) }

----------------------------------------------------------------------------
(* Specification SpecResolve: the analyzer is initialised for Root, then   *)
(* resolveFilePath and createImportInfo are called directly.  The trees    *)
(* are of two families: the thirteen-candidate probe around /r/m, and the  *)
(* alias layouts around src/components/Foo.                                *)

\* a function from a set of paths, NoEntry elsewhere, over the domain D
TreeOver(D, f) == [p \in D |-> IF p \in DOMAIN f THEN f[p] ELSE NoEntry]

ProbeDomain ==
    {"/r", "/r/.gitignore", "/r/m", "/r/m.ts", "/r/m.js", "/r/m.vue",
     "/r/m/index.ts", "/r/m/index.js"}

ProbeIgnores == {<<>>, <<"m.ts">>, <<"index.ts">>, <<"*.ts", "!index.ts">>, <<"/m">>}

ProbeTrees ==
    { t \in { [p \in ProbeDomain |->
                 IF p = "/r" THEN DirEntry
                 ELSE IF p = "/r/.gitignore" THEN TextFile(lines)
                 ELSE IF p = "/r/m" THEN km
                 ELSE IF p = "/r/m.ts" THEN kts
                 ELSE IF p = "/r/m.js" THEN kjs
                 ELSE IF p = "/r/m.vue" THEN kvue
                 ELSE IF p = "/r/m/index.ts" THEN kits
                 ELSE kijs] :
              lines \in ProbeIgnores,
              km \in {NoEntry, DirEntry, SourceFile(<<>>)},
              kts \in {NoEntry, DirEntry, SourceFile(<<>>)},
              kjs \in {NoEntry, SourceFile(<<>>)},
              kvue \in {NoEntry, SourceFile(<<>>)},
              kits \in {NoEntry, DirEntry, SourceFile(<<>>)},
              kijs \in {NoEntry, SourceFile(<<>>)} } :
        WellFormedFs(t) }

\* a nuxt.config.ts whose text declares srcDir as raw
NuxtConfig(raw) == [SourceFile(<<>>) EXCEPT !.srcDir = raw]

AliasDomain ==
    {"/r", "/r/.gitignore", "/r/nuxt.config.ts", "/r/src", "/r/src/components",
     "/r/src/components/Foo.ts", "/r/src/components/Foo", "/r/components",
     "/r/components/Foo.ts"}

AliasTrees ==
    { t \in { [p \in AliasDomain |->
                 IF p = "/r" THEN DirEntry
                 ELSE IF p = "/r/.gitignore" THEN TextFile(lines)
                 ELSE IF p = "/r/nuxt.config.ts" THEN cfg
                 ELSE IF p = "/r/src" THEN ksrc
                 ELSE IF p = "/r/src/components" THEN kcomp
                 ELSE IF p = "/r/src/components/Foo.ts" THEN kfoots
                 ELSE IF p = "/r/src/components/Foo" THEN kfoo
                 ELSE krc] :
              lines \in {<<>>, <<"/src/components/Foo.ts">>},
              cfg \in {NoEntry, NuxtConfig(None), NuxtConfig("src"), NuxtConfig(" app/"),
                       NuxtConfig("./")},
              ksrc \in {NoEntry, DirEntry},
              kcomp \in {NoEntry, DirEntry},
              kfoots \in {NoEntry, SourceFile(<<>>)},
              kfoo \in {NoEntry, SourceFile(<<>>)},
              krc \in {NoEntry, DirEntry, SourceFile(<<>>)} } :
        /\ WellFormedFs(t)
        /\ t["/r/components/Foo.ts"].kind = "file" <=> t["/r/components"].kind = "dir" }

ResolveSources ==
    {"./m", "./missing", "express", "@/components/Foo", "~/components/Foo",
     "~~/components/Foo", "~/../components/Foo", "#imports"}

InitResolve ==
    /\ fs \in ProbeTrees \cup AliasTrees
    /\ analyzer = AnalyzerInit
    /\ inv = <<>>
    /\ q = NoCall
    /\ view = ViewInit

\* the "Initialize project analysis" block, run for Root
InitializeForRoot ==
    /\ analyzer.gitignoreParser.isNull
    /\ analyzer' = InitializeAnalysis(Root)
    /\ UNCHANGED <<fs, inv, q, view>>

\* this.resolveFilePath(base)
CallResolveFilePath ==
    /\ ~analyzer.gitignoreParser.isNull
    /\ \E base \in {"/r/m", "/r/src/components/Foo"} :
          q' = [op |-> "resolveFilePath", base |-> base, result |-> resolveFilePath(analyzer, base)]
    /\ UNCHANGED <<fs, analyzer, inv, view>>

\* this.createImportInfo(source, fileDir, projectRoot, 'import')
CallCreateImportInfo ==
    /\ ~analyzer.gitignoreParser.isNull
    /\ \E source \in ResolveSources :
          q' = [op |-> "createImportInfo", source |-> source, fileDir |-> Root,
                result |-> createImportInfo(analyzer, source, Root, Root, "import")]
    /\ UNCHANGED <<fs, analyzer, inv, view>>

NextResolve == InitializeForRoot \/ CallResolveFilePath \/ CallCreateImportInfo

SpecResolve == InitResolve /\ [][NextResolve]_vars

\* the thirteen candidates of a base path, in probe order
Candidates(b) ==
    [i \in 1..7 |-> b \o ProbeExtensions[i]]
    \o [i \in 1..6 |-> b \o "/index" \o ProbeExtensions[i + 1]]

\* a candidate qualifies: it exists as a regular file and is not ignored
Qualifies(p) == IsFile(p) /\ ~IgnoredByParser(analyzer, p)

\* the candidate base of the last createImportInfo call
LastBase ==
    IF isProjectAlias(q.source) THEN AliasPath(analyzer, q.source, Root)
    ELSE PathResolve(q.fileDir, q.source)

\* C6: when no candidate of a relative or alias source exists as a file that the
\* ignore rules let through, the import reference has no resolved path.
C6_UnresolvedHasNoPath ==
    (/\ q.op = "createImportInfo"
     /\ ~q.result.isNodeModule
     /\ \A i \in 1..13 : ~Qualifies(Candidates(LastBase)[i]))
        => q.result.resolvedPath = None

\* C7: resolveFilePath returns the first of the thirteen candidates that exists
\* as a regular file and is not ignored, whenever one does.
C7_FirstQualifyingCandidate ==
    q.op = "resolveFilePath" =>
        LET c == Candidates(q.base)
            Q == { i \in 1..13 : Qualifies(c[i]) }
        IN  Q # {} => q.result = c[CHOOSE i \in Q : \A j \in Q : i <= j]

AliasPrefix(source) ==
    IF StartsWith(source, "~~/") THEN "~~/"
    ELSE IF StartsWith(source, "~/") THEN "~/"
    ELSE IF StartsWith(source, "@/") THEN "@/"
    ELSE None

\* the alias example: source directory src, @/components/Foo, and
\* src/components/Foo.ts an existing file the ignore rules let through
AliasExample ==
    /\ q.op = "createImportInfo"
    /\ q.source = "@/components/Foo"
    /\ analyzer.nuxtSrcDir = "src"
    /\ Qualifies("/r/src/components/Foo.ts")

----------------------------------------------------------------------------
(* Specification SpecGraph: one call of analyzeProject or analyzeFile on a *)
(* tree of five source files, run to its return, then handed to the panel. *)
(* Every file holds at most MaxStmts statements of its template.           *)

MaxStmts == 2

RECURSIVE SubSeqs(_)
\* the subsequences of t
SubSeqs(t) ==
    IF Len(t) = 0 THEN {<<>>}
    ELSE LET rest == SubSeqs(Tail(t))
         IN  rest \cup { <<Head(t)>> \o u : u \in rest }

SubSeqsUpTo(t, n) == { u \in SubSeqs(t) : Len(u) <= n }

TemplateE == <<Stmt("named", "./a"), Stmt("bound", "./b"), Stmt("default", "express")>>

TemplateA == <<Stmt("named", "./d"), Stmt("lazy", "./e")>>

TemplateC == <<Stmt("named", "./e"), Stmt("dynamic", "@/a")>>

TemplateD == <<Stmt("bare", "./ghost")>>

GraphTrees ==
    { [p \in {"/r", "/r/.gitignore", "/r/e.ts", "/r/a.ts", "/r/b.ts", "/r/c.ts", "/r/d.ts"} |->
          IF p = "/r" THEN DirEntry
          ELSE IF p = "/r/.gitignore" THEN gi
          ELSE IF p = "/r/e.ts" THEN SourceFile(se)
          ELSE IF p = "/r/a.ts" THEN [SourceFile(sa) EXCEPT !.readable = ra]
          ELSE IF p = "/r/b.ts" THEN SourceFile(<<>>)
          ELSE IF p = "/r/c.ts" THEN SourceFile(sc)
          ELSE SourceFile(sd)] :
        gi \in {NoEntry, TextFile(<<"d.ts">>)},
        se \in SubSeqsUpTo(TemplateE, MaxStmts),
        sa \in SubSeqsUpTo(TemplateA, MaxStmts),
        ra \in BOOLEAN,
        sc \in SubSeqsUpTo(TemplateC, MaxStmts),
        sd \in SubSeqsUpTo(TemplateD, MaxStmts) }

EntryChoices == {"/r/e.ts", "/r/a.ts", "/r/b.ts", "/r/c.ts", "/r/d.ts", "/r/ghost.ts"}

InitGraph ==
    /\ fs \in GraphTrees
    /\ analyzer = AnalyzerInit
    /\ inv = <<>>
    /\ q = NoCall
    /\ view = ViewInit

\* the command importMapExplorer.showMap calls analyzer.analyzeProject
GraphAnalyzeProject == Len(inv) = 0 /\ StartAnalyzeProject(Root)

\* the command importMapExplorer.showCurrentFileMap calls analyzer.analyzeFile
GraphAnalyzeFile == Len(inv) = 0 /\ \E f \in EntryChoices : StartAnalyzeFile(f, Root)

GraphResumeFirstPass == \E i \in 1..Len(inv) : ResumeFirstPass(i)

GraphResumeEntry == \E i \in 1..Len(inv) : ResumeEntry(i)

GraphResumeImporter == \E i \in 1..Len(inv) : ResumeImporter(i)

GraphResumeDependency == \E i \in 1..Len(inv) : ResumeDependency(i)

\* the html of the panel is rebuilt from the returned import map:
\* updateContent -> getHtmlForWebview -> convertToVisualizationData
UpdateContent(importMap, currentFile, isProjectMode) ==
    LET data == convertToVisualizationData(importMap.files, currentFile, isProjectMode)
    IN  view' = [view EXCEPT !.loaded = TRUE, !.nodes = data.nodes, !.edges = data.edges,
                             !.currentFile = currentFile, !.canvas = <<>>,
                             !.dragged = 0, !.nodeStart = <<>>]

\* ImportMapPanel.createOrShow(extensionUri, importMap, currentFile, isProjectMode)
GraphCreateOrShow ==
    /\ ~view.loaded
    /\ \E i \in 1..Len(inv) :
          /\ inv[i].status = "returned"
          /\ \E currentFile \in {None, "/r/e.ts", inv[i].entry}, isProjectMode \in BOOLEAN :
                UpdateContent(inv[i], currentFile, isProjectMode)
    /\ UNCHANGED <<fs, analyzer, inv, q>>

NextGraph ==
    \/ GraphAnalyzeProject
    \/ GraphAnalyzeFile
    \/ GraphResumeFirstPass
    \/ GraphResumeEntry
    \/ GraphResumeImporter
    \/ GraphResumeDependency
    \/ GraphCreateOrShow

SpecGraph == InitGraph /\ [][NextGraph]_vars

\* the graphs that calls of the given kind have returned
Returned(kind) ==
    { inv[i].files : i \in { k \in 1..Len(inv) : inv[k].kind = kind /\ inv[k].status = "returned" } }

\* B's path is in A.importedBy iff a non-external import of B has resolvedPath A.path
InverseOfImports(files) ==
    \A ka, kb \in 1..Len(files) :
        (files[kb].path \in Range(files[ka].importedBy))
            <=> \E j \in 1..Len(files[kb].imports) :
                    /\ ~files[kb].imports[j].isNodeModule
                    /\ files[kb].imports[j].resolvedPath = files[ka].path

\* C1: in every graph returned by analyzeProject, importedBy is the exact inverse
\* of the non-external resolved imports among the records of the graph.
C1_ProjectBidirectional == \A files \in Returned("project") : InverseOfImports(files)

\* analyzeProject has returned a graph in which some record is imported by
\* another one and some record imports nothing of the graph
C1_Witness ==
    \E files \in Returned("project") :
        /\ \E k \in 1..Len(files) : Len(files[k].importedBy) > 0
        /\ \E k \in 1..Len(files) : Len(files[k].importedBy) = 0

\* C2: in every graph returned by analyzeFile, importedBy is the exact inverse of
\* the non-external resolved imports among the records of the graph.
C2_FocusedBidirectional == \A files \in Returned("file") : InverseOfImports(files)

\* C3: every edge handed to the webview starts and ends at a node of the node list.
C3_NoDanglingEdges ==
    view.loaded =>
        \A k \in 1..Len(view.edges) :
            /\ view.edges[k].from \in NodeIds(view.nodes)
            /\ view.edges[k].to \in NodeIds(view.nodes)

\* a converted graph with an edge from an external-dependency node, an edge
\* between two files, and a record with a resolved import outside the graph
C3_Witness ==
    /\ view.loaded
    /\ \E k \in 1..Len(view.edges) : StartsWith(view.edges[k].from, "node_module:")
    /\ \E k \in 1..Len(view.edges) : ~StartsWith(view.edges[k].from, "node_module:")
    /\ \E i \in 1..Len(inv) : \E k \in 1..Len(inv[i].files) :
          \E j \in 1..Len(inv[i].files[k].imports) :
              /\ IsResolvedInternal(inv[i].files[k].imports[j])
              /\ ~MapHas(inv[i].files, inv[i].files[k].imports[j].resolvedPath)

\* the non-external resolved imports of a file, as the analyzer reads them now
ResolvedImportsOf(f) ==
    LET n == analyzeFileContent(analyzer, f, Root)
    IN  IF n = <<>> THEN {}
        ELSE { n[1].imports[j].resolvedPath :
                 j \in { j1 \in 1..Len(n[1].imports) : IsResolvedInternal(n[1].imports[j1]) } }

\* the scanned files with an import that resolves to E
ImportersOf(E) == { f \in Range(getAllFiles(analyzer, Root).files) : E \in ResolvedImportsOf(f) }

\* the two-hop example: E imports A and B, C imports E, A imports D
TwoHopExample(r) ==
    /\ r.entry = "/r/e.ts"
    /\ ResolvedImportsOf("/r/e.ts") = {"/r/a.ts", "/r/b.ts"}
    /\ ImportersOf("/r/e.ts") = {"/r/c.ts"}
    /\ "/r/d.ts" \in ResolvedImportsOf("/r/a.ts")

\* C4 as stated: the records of analyzeFile(E, root) are exactly E, the scanned
\* files importing E, and the files E's imports resolve to; in the two-hop
\* example they are exactly E, A, B and C.
C4_TwoHopRecordSet ==
    \A i \in 1..Len(inv) :
        (inv[i].kind = "file" /\ inv[i].status = "returned") =>
            /\ MapKeys(inv[i].files) =
                  {inv[i].entry} \cup ImportersOf(inv[i].entry)
                  \cup { p \in ResolvedImportsOf(inv[i].entry) : IsFile(p) }
            /\ TwoHopExample(inv[i]) =>
                  MapKeys(inv[i].files) = {"/r/e.ts", "/r/a.ts", "/r/b.ts", "/r/c.ts"}

\* C4 as amended: when E cannot be read the graph has no record; otherwise its
\* records are exactly E, the scanned files importing E, and the files that
\* E's imports resolve to and that can be read; in the two-hop example with A
\* and B readable they are exactly E, A, B and C.
C4_TwoHopReadable ==
    \A i \in 1..Len(inv) :
        (inv[i].kind = "file" /\ inv[i].status = "returned") =>
            /\ ~CanRead(inv[i].entry) => MapKeys(inv[i].files) = {}
            /\ CanRead(inv[i].entry) =>
                  MapKeys(inv[i].files) =
                      {inv[i].entry} \cup ImportersOf(inv[i].entry)
                      \cup { p \in ResolvedImportsOf(inv[i].entry) : CanRead(p) }
            /\ (TwoHopExample(inv[i]) /\ CanRead("/r/a.ts")) =>
                  MapKeys(inv[i].files) = {"/r/e.ts", "/r/a.ts", "/r/b.ts", "/r/c.ts"}

\* analyzeFile has returned on the two-hop example
C4_Witness ==
    \E i \in 1..Len(inv) :
        /\ inv[i].kind = "file" /\ inv[i].status = "returned"
        /\ TwoHopExample(inv[i])
        /\ CanRead("/r/a.ts")
        /\ MapKeys(inv[i].files) = {"/r/e.ts", "/r/a.ts", "/r/b.ts", "/r/c.ts"}

----------------------------------------------------------------------------
(* Specification SpecLayout: the page of the panel.  The panel is loaded   *)
(* with project graphs over the files /r/f1.ts .. /r/f9.ts, its script     *)
(* lays the nodes out, the user drags nodes and presses Organize, and the  *)
(* page is unloaded; localStorage outlives the pages.                      *)

\* how many times the panel is given a graph
MaxLoads == 2

\* how many nodes the user drags
MaxDrags == 1

\* the user picks among the first nodes of the list
MaxDragIndex == 2

LayoutFile(i) == "/r/f" \o <<"1", "2", "3", "4", "5", "6", "7", "8", "9">>[i] \o ".ts"

ImportOf(source, resolvedPath) ==
    [source |-> source, type |-> "import", isNodeModule |-> resolvedPath = None,
     resolvedPath |-> resolvedPath]

RECURSIVE Ascending(_)
Ascending(S) ==
    IF S = {} THEN <<>>
    ELSE LET i == CHOOSE x \in S : \A y \in S : x <= y IN <<i>> \o Ascending(S \ {i})

\* f1 imports f3, f4, f6 and f9; f2, f4, f5 and f8 import f1; f9 imports the package m1
LayoutImports(i, S) ==
    IF i = 1
    THEN [k \in 1..Len(Ascending(S \cap {3, 4, 6, 9})) |->
             ImportOf("./f", LayoutFile(Ascending(S \cap {3, 4, 6, 9})[k]))]
    ELSE IF i \in {2, 4, 5, 8} THEN << ImportOf("./f1", LayoutFile(1)) >>
    ELSE IF i = 9 THEN << ImportOf("m1", None) >>
    ELSE <<>>

\* the import map over the files numbered in S
LayoutMap(S) ==
    [files |-> [k \in 1..Cardinality(S) |->
                   [path |-> LayoutFile(Ascending(S)[k]),
                    name |-> PathBasename(LayoutFile(Ascending(S)[k])),
                    imports |-> LayoutImports(Ascending(S)[k], S),
                    importedBy |-> <<>>, isNodeModule |-> FALSE]]]

LayoutFileSets == { 1..8, 3..9, 1..5, 1..7, 1..9 }

\* rect.width, rect.height (CSS pixels) and devicePixelRatio
CanvasSizes == { <<1200, 900, 1>>, <<400, 300, 2>> }

\* how far the mouse is moved while a node is dragged
DragDeltas == { << Px(40), Px(10) >>, << 0 - Px(5000), 0 - Px(5000) >> }

LayoutCall(op) ==
    [op |-> op, loads |-> q.loads, drags |-> q.drags,
     called |-> FALSE, hadItem |-> FALSE, saved |-> <<>>]

InitLayout ==
    /\ fs = [p \in {Root} |-> DirEntry]
    /\ analyzer = AnalyzerInit
    /\ inv = <<>>
    /\ q = [op |-> "none", loads |-> 0, drags |-> 0,
            called |-> FALSE, hadItem |-> FALSE, saved |-> <<>>]
    /\ view = ViewInit

\* ImportMapPanel.createOrShow with a project graph
LayoutCreateOrShow ==
    /\ q.loads < MaxLoads
    /\ \E S \in LayoutFileSets, currentFile \in {None, LayoutFile(1)} :
          UpdateContent(LayoutMap(S), currentFile, TRUE)
    /\ q' = [LayoutCall("updateContent") EXCEPT !.loads = q.loads + 1]
    /\ UNCHANGED <<fs, analyzer, inv>>

\* the script's first initCanvas() and the one of the resize handler; q keeps
\* whether layoutNodes was called and what the storage held for the page's key
LayoutInitCanvas ==
    /\ view.loaded
    /\ \E size \in CanvasSizes :
          view' = initCanvas(view, <<size[1], size[2]>>, size[3])
    /\ q' = [LayoutCall("initCanvas") EXCEPT
                !.called = /\ Len(view.nodes) > 0
                           /\ \E k \in 1..Len(view.nodes) : ~HasPosition(view.nodes[k]),
                !.hadItem = StorageKey(view.currentFile) \in DOMAIN view.storage,
                !.saved = IF StorageKey(view.currentFile) \in DOMAIN view.storage
                          THEN view.storage[StorageKey(view.currentFile)] ELSE <<>>]
    /\ UNCHANGED <<fs, analyzer, inv>>

\* the mouse goes down on the centre of a node
LayoutMouseDown ==
    /\ view.canvas # <<>>
    /\ view.dragged = 0
    /\ q.drags < MaxDrags
    /\ \E k \in 1..MathMin(MaxDragIndex, Len(view.nodes)) :
          /\ HasPosition(view.nodes[k])
          /\ view.nodes[k].pos[1] # NaN /\ view.nodes[k].pos[2] # NaN
          /\ view' = mousedown(view, ToNumber(view.nodes[k].pos[1]),
                                     ToNumber(view.nodes[k].pos[2]))
    /\ q' = [LayoutCall("mousedown") EXCEPT !.drags = q.drags + 1]
    /\ UNCHANGED <<fs, analyzer, inv>>

LayoutMouseMove ==
    /\ view.canvas # <<>>
    /\ view.dragged # 0
    /\ \E delta \in DragDeltas : view' = mousemove(view, delta[1], delta[2])
    /\ q' = LayoutCall("mousemove")
    /\ UNCHANGED <<fs, analyzer, inv>>

LayoutMouseUp ==
    /\ view.canvas # <<>>
    /\ view.dragged # 0
    /\ view' = mouseup(view)
    /\ q' = LayoutCall("mouseup")
    /\ UNCHANGED <<fs, analyzer, inv>>

\* the Organize button
LayoutOrganize ==
    /\ view.canvas # <<>>
    /\ view' = organizeLayout(view)
    /\ q' = LayoutCall("organizeLayout")
    /\ UNCHANGED <<fs, analyzer, inv>>

\* the page goes away: the beforeunload listener saves the positions
LayoutBeforeUnload ==
    /\ view.canvas # <<>>
    /\ view' = [ViewInit EXCEPT !.storage = saveNodePositions(view)]
    /\ q' = LayoutCall("beforeunload")
    /\ UNCHANGED <<fs, analyzer, inv>>

NextLayout ==
    \/ LayoutCreateOrShow
    \/ LayoutInitCanvas
    \/ LayoutMouseDown
    \/ LayoutMouseMove
    \/ LayoutMouseUp
    \/ LayoutOrganize
    \/ LayoutBeforeUnload

SpecLayout == InitLayout /\ [][NextLayout]_vars

\* the positions layoutNodes computes when it reuses nothing
FreshLayout == layoutNodes(view, TRUE).nodes

\* initCanvas has just called layoutNodes with an item stored under the page's key
LayoutRanWithItem == q.op = "initCanvas" /\ q.called /\ q.hadItem

\* 10 * |C \cap P| >= 7 * max(|C|, |P|) for the page's ids C and the stored ids P
OverlapAtLeast70 ==
    LET C == NodeIds(view.nodes)
        P == DOMAIN q.saved
    IN  10 * Cardinality(C \cap P) >= 7 * MathMax(Cardinality(C), Cardinality(P))

\* C9: when layoutNodes finds a stored position set whose overlap ratio with the
\* page's nodes is at least 0.70, every node with a stored entry has exactly the
\* stored x and y; when the ratio is below 0.70 the stored item is removed and all
\* nodes have the freshly computed positions.
C9_PositionReuse ==
    LayoutRanWithItem =>
        IF OverlapAtLeast70
        THEN \A k \in 1..Len(view.nodes) :
                view.nodes[k].id \in DOMAIN q.saved =>
                    view.nodes[k].pos = q.saved[view.nodes[k].id]
        ELSE /\ StorageKey(view.currentFile) \notin DOMAIN view.storage
             /\ view.nodes = FreshLayout
             /\ \A k \in 1..Len(view.nodes) : HasPosition(view.nodes[k])

\* 8 ids are stored and the page shares 6 of them: the six carry their stored
\* positions, which are not the ones a fresh layout gives
C9_Witness ==
    /\ LayoutRanWithItem
    /\ Cardinality(DOMAIN q.saved) = 8
    /\ Cardinality(NodeIds(view.nodes) \cap DOMAIN q.saved) = 6
    /\ \A k \in 1..Len(view.nodes) :
          view.nodes[k].id \in DOMAIN q.saved =>
              /\ view.nodes[k].pos = q.saved[view.nodes[k].id]
              /\ view.nodes[k].pos # <<>>
    /\ \E k \in 1..Len(view.nodes) :
          /\ view.nodes[k].id \in DOMAIN q.saved
          /\ view.nodes[k].pos # FreshLayout[k].pos

\* C10: after layoutNodes has reused stored positions every node of the page has
\* x and y.
C10_ReuseLeavesNoNodeUnplaced ==
    (LayoutRanWithItem /\ OverlapAtLeast70) =>
        \A k \in 1..Len(view.nodes) : HasPosition(view.nodes[k])

----------------------------------------------------------------------------
(* The spiral layout.                                                      *)

\* initCanvas has just run the spiral branch of layoutNodes: layoutNodes was
\* called, nothing was reused and the page has a current file node
SpiralRan ==
    /\ q.op = "initCanvas" /\ q.called
    /\ ~(q.hadItem /\ OverlapAtLeast70)
    /\ CurrentNodeIndex(view.nodes) # 0

LayoutCenterX == (Px(view.canvas[1]) * view.canvas[3]) \div (2 * view.canvas[3])

LayoutCenterY == (Px(view.canvas[2]) * view.canvas[3]) \div (2 * view.canvas[3])

SpiralOthers == SelectSeq(view.nodes, LAMBDA n : ~n.isCurrentFile)

\* the state in which the while loop of otherNodes[k - 1] ended: the nodes before
\* it keep the positions they had when the loop ran
SpiralEnd(k) ==
    SpiralLoop(LayoutCenterX, LayoutCenterY, view.nodes[CurrentNodeIndex(view.nodes)],
               SpiralOthers, k)

\* the boxes of two placed nodes, each grown by 10 units on every side (a gap of
\* 20 between them), intersect
PaddedBoxesIntersect(n1, n2) ==
    /\ 2 * MathAbs(n1.pos[1] - n2.pos[1])
          < calculateNodeSize(n1.label).width + calculateNodeSize(n2.label).width + Px(40)
    /\ 2 * MathAbs(n1.pos[2] - n2.pos[2])
          < calculateNodeSize(n1.label).height + calculateNodeSize(n2.label).height + Px(40)

\* C11: after the spiral layout, the padded boxes of any two nodes that were
\* placed by the while loop (not by the fallback) do not intersect, nor does the
\* padded box of such a node intersect that of the current file node.
C11_SpiralNoOverlap ==
    SpiralRan =>
        LET valid == { k \in 1..Len(SpiralOthers) : SpiralEnd(k).validPosition }
        IN  /\ \A k \in valid :
                  ~PaddedBoxesIntersect(SpiralOthers[k],
                                        view.nodes[CurrentNodeIndex(view.nodes)])
            /\ \A k1 \in valid, k2 \in valid :
                  k1 # k2 => ~PaddedBoxesIntersect(SpiralOthers[k1], SpiralOthers[k2])

\* a spiral layout in which a node's first position collided with a placed node
\* and the loop moved it to a free one, and another in which the fallback placed
\* a node: the node the loop placed sits where the loop ended
C11_Witness ==
    /\ SpiralRan
    /\ \E k \in 1..Len(SpiralOthers) :
          /\ SpiralEnd(k).validPosition
          /\ SpiralEnd(k).attempts > 1
          /\ SpiralOthers[k].pos = SpiralEnd(k).pos
    /\ Cardinality({ k \in 1..Len(SpiralOthers) : SpiralEnd(k).validPosition }) >= 9

----------------------------------------------------------------------------
(* Further properties of the returned graphs (specification SpecGraph).    *)

\* no element occurs twice in the sequence s
NoDuplicates(s) == \A i, j \in 1..Len(s) : s[i] = s[j] => i = j

\* C12: in every graph a build returns, no record's importedBy holds the path of
\* an importing file more than once.
C12_ImportedByIsSet ==
    \A files \in Returned("project") \cup Returned("file") :
        \A k \in 1..Len(files) : NoDuplicates(files[k].importedBy)

----------------------------------------------------------------------------
(* Specifications SpecRepeat and SpecShared: several calls of              *)
(* analyzeProject and analyzeFile in a workspace with the two folders /r   *)
(* (TypeScript sources) and /s (JavaScript sources).  In SpecRepeat a call *)
(* starts when the calls before it have ended, on the same ImportAnalyzer  *)
(* or on a new one; in SpecShared the commands of activate() share one     *)
(* ImportAnalyzer and a call may start while another one is at an await.   *)

\* how many calls are made
MaxCalls == 2

SharedRoots == {"/r", "/s"}

SharedTrees ==
    { [p \in {"/r", "/r/e.ts", "/r/a.ts",
              "/s", "/s/.gitignore", "/s/tsconfig.json", "/s/m.js", "/s/n.js"} |->
          IF p \in SharedRoots THEN DirEntry
          ELSE IF p = "/s/.gitignore" THEN gs
          ELSE IF p = "/s/tsconfig.json" THEN ts
          ELSE IF p = "/r/e.ts" THEN SourceFile(<<Stmt("named", "./a")>>)
          ELSE IF p = "/r/a.ts" THEN SourceFile(sa)
          ELSE IF p = "/s/m.js" THEN SourceFile(<<Stmt("named", "./n"), Stmt("default", "express")>>)
          ELSE SourceFile(sn)] :
        gs \in {NoEntry, TextFile(<<"a.ts">>)},
        ts \in {NoEntry, TextFile(<<>>)},
        sa \in {<<>>, <<Stmt("named", "./e")>>},
        sn \in {<<>>, <<Stmt("bound", "express")>>} }

\* the active editor's file and its workspace folder
SharedEntries ==
    { <<"/r/e.ts", "/r">>, <<"/r/a.ts", "/r">>, <<"/s/m.js", "/s">>, <<"/s/n.js", "/s">> }

InitShared ==
    /\ fs \in SharedTrees
    /\ analyzer = AnalyzerInit
    /\ inv = <<>>
    /\ q = NoCall
    /\ view = ViewInit

AllEnded == \A i \in 1..Len(inv) : inv[i].pc = "done"

\* the command importMapExplorer.showMap
SharedAnalyzeProject ==
    /\ Len(inv) < MaxCalls
    /\ \E root \in SharedRoots : StartAnalyzeProject(root)

\* the command importMapExplorer.showCurrentFileMap
SharedAnalyzeFile ==
    /\ Len(inv) < MaxCalls
    /\ \E e \in SharedEntries : StartAnalyzeFile(e[1], e[2])

RepeatAnalyzeProject == AllEnded /\ SharedAnalyzeProject

RepeatAnalyzeFile == AllEnded /\ SharedAnalyzeFile

\* the extension is activated anew: const analyzer = new ImportAnalyzer()
RepeatNewAnalyzer ==
    /\ AllEnded
    /\ Len(inv) > 0
    /\ analyzer # AnalyzerInit
    /\ analyzer' = AnalyzerInit
    /\ UNCHANGED <<fs, inv, q, view>>

\* ImportMapPanel.createOrShow with a returned import map creates the panel; q
\* keeps the arguments
RepeatCreateOrShow ==
    /\ AllEnded
    /\ ~view.loaded
    /\ \E i \in 1..Len(inv) :
          /\ inv[i].status = "returned"
          /\ \E currentFile \in {None} \cup { e[1] : e \in SharedEntries },
                isProjectMode \in BOOLEAN :
                /\ UpdateContent(inv[i], currentFile, isProjectMode)
                /\ q' = [op |-> "createOrShow", call |-> i, currentFile |-> currentFile,
                         isProjectMode |-> isProjectMode]
    /\ UNCHANGED <<fs, analyzer, inv>>

NextRepeat ==
    \/ RepeatAnalyzeProject
    \/ RepeatAnalyzeFile
    \/ RepeatNewAnalyzer
    \/ RepeatCreateOrShow
    \/ GraphResumeFirstPass
    \/ GraphResumeEntry
    \/ GraphResumeImporter
    \/ GraphResumeDependency

SpecRepeat == InitShared /\ [][NextRepeat]_vars

NextShared ==
    \/ SharedAnalyzeProject
    \/ SharedAnalyzeFile
    \/ GraphResumeFirstPass
    \/ GraphResumeEntry
    \/ GraphResumeImporter
    \/ GraphResumeDependency

SpecShared == InitShared /\ [][NextShared]_vars

\* the node set and the edge set handed to the webview for a returned graph
VisualSets(files, currentFile, isProjectMode) ==
    LET data == convertToVisualizationData(files, currentFile, isProjectMode)
    IN  [nodes |-> Range(data.nodes), edges |-> Range(data.edges)]

\* two calls of the same entry point with the same root and the same entry file
SameBuild(i, j) ==
    /\ inv[i].kind = inv[j].kind
    /\ inv[i].root = inv[j].root
    /\ inv[i].entry = inv[j].entry

\* C13: two builds of the same kind with the same root (and entry file), made
\* one after the other on an unchanged tree, on one analyzer or on two, end the
\* same way and give the same node set and edge set after conversion.
C13_RebuildIdentical ==
    \A i, j \in 1..Len(inv) :
        (SameBuild(i, j) /\ inv[i].pc = "done" /\ inv[j].pc = "done") =>
            /\ inv[i].status = inv[j].status
            /\ \A isProjectMode \in BOOLEAN :
                  VisualSets(inv[i].files, inv[i].entry, isProjectMode)
                      = VisualSets(inv[j].files, inv[j].entry, isProjectMode)

\* the same build has returned twice with a graph that has nodes and edges, once
\* more on the same analyzer or on a new one
C13_Witness ==
    /\ Len(inv) = 2
    /\ SameBuild(1, 2)
    /\ inv[1].status = "returned" /\ inv[2].status = "returned"
    /\ VisualSets(inv[2].files, inv[2].entry, TRUE).edges # {}
    /\ Cardinality(VisualSets(inv[2].files, inv[2].entry, TRUE).nodes) >= 3

RECURSIVE RunToEnd(_, _)
\* the invocation r run to its end on the analyzer a with no other call in between
RunToEnd(a, r) ==
    IF r.pc = "pass1" THEN RunToEnd(a, FirstPassResumed(a, r))
    ELSE IF r.pc = "entry" THEN RunToEnd(a, EntryResumed(a, r))
    ELSE IF r.pc = "importers" THEN RunToEnd(a, ImporterResumed(a, r))
    ELSE IF r.pc = "deps" THEN RunToEnd(a, DependencyResumed(a, r))
    ELSE r

RunAloneOn(a, kind, projectRoot, filePath) ==
    RunToEnd(a, IF kind = "project"
                THEN ProjectStarted(a, NewInvocation(kind, projectRoot, filePath))
                ELSE FileStarted(a, NewInvocation(kind, projectRoot, filePath)))

\* how the call of this kind, root and entry file ends when it runs alone
RunAlone(kind, projectRoot, filePath) ==
    RunAloneOn(InitializeAnalysis(projectRoot), kind, projectRoot, filePath)

\* C14: every call on the shared analyzer, whatever other call ran between its
\* awaits, ends as it ends when run alone and returns the same graph.
C14_CallsShareNoState ==
    \A i \in 1..Len(inv) :
        inv[i].pc = "done" =>
            /\ inv[i].status = RunAlone(inv[i].kind, inv[i].root, inv[i].entry).status
            /\ inv[i].files = RunAlone(inv[i].kind, inv[i].root, inv[i].entry).files

\* the ImportMap a returned call of analyzeFile hands to its caller:
\* `return { files, entryFile: filePath }` at both of its return statements
ReturnedImportMap(r) == [files |-> r.files, entryFile |-> r.entry]

\* the object carries something besides the graph that tells a failed analysis
\* from a successful one: a member other than files and entryFile, or no entryFile
HasFailureIndicator(importMap) ==
    \/ DOMAIN importMap \ {"files", "entryFile"} # {}
    \/ importMap.entryFile = None

\* C15: analyzeFile on an entry file that does not exist or cannot be read does
\* not throw and returns a graph with no records that carries an explicit
\* failure indicator.
C15_MissingEntryFlagged ==
    \A i \in 1..Len(inv) :
        (inv[i].kind = "file" /\ inv[i].pc = "done" /\ ~CanRead(inv[i].entry)) =>
            /\ inv[i].status = "returned"
            /\ Len(inv[i].files) = 0
            /\ HasFailureIndicator(ReturnedImportMap(inv[i]))

\* C16: a discovered file that cannot be read gets no record and stops nothing:
\* the call returns, every other discovered file has its record (project build),
\* and the second pass has mirrored the imports among the records.
C16_FileFailureSkipped ==
    \A i \in 1..Len(inv) :
        inv[i].pc = "done" =>
            /\ inv[i].status = "returned"
            /\ \A k \in 1..Len(inv[i].files) : CanRead(inv[i].files[k].path)
            /\ inv[i].kind = "project" =>
                  /\ MapKeys(inv[i].files)
                        = { f \in Range(getAllFiles(analyzer, Root).files) : CanRead(f) }
                  /\ InverseOfImports(inv[i].files)

\* analyzeProject has returned on a tree whose scan holds an unreadable file that
\* another file imports: the other files have records and importedBy entries
C16_Witness ==
    \E i \in 1..Len(inv) :
        /\ inv[i].kind = "project" /\ inv[i].status = "returned"
        /\ \E f \in Range(getAllFiles(analyzer, Root).files) : ~CanRead(f)
        /\ \E k \in 1..Len(inv[i].files) : \E j \in 1..Len(inv[i].files[k].imports) :
              /\ IsResolvedInternal(inv[i].files[k].imports[j])
              /\ ~CanRead(inv[i].files[k].imports[j].resolvedPath)
              /\ IsFile(inv[i].files[k].imports[j].resolvedPath)
        /\ Len(inv[i].files) >= 3
        /\ \E k \in 1..Len(inv[i].files) : Len(inv[i].files[k].importedBy) > 0

----------------------------------------------------------------------------
(* Specification SpecHidden: one call of analyzeProject or analyzeFile on  *)
(* a tree whose .gitignore hides the file d.ts and the folder gen.         *)

HiddenTemplateE == <<Stmt("named", "./d"), Stmt("named", "./d.ts"), Stmt("named", "./gen/x")>>

HiddenTrees ==
    { [p \in {"/r", "/r/.gitignore", "/r/e.ts", "/r/d.ts", "/r/gen", "/r/gen/x.ts"} |->
          IF p \in {"/r", "/r/gen"} THEN DirEntry
          ELSE IF p = "/r/.gitignore" THEN gi
          ELSE IF p = "/r/e.ts" THEN SourceFile(se)
          ELSE IF p = "/r/gen/x.ts" THEN SourceFile(sx)
          ELSE SourceFile(<<>>)] :
        gi \in {NoEntry, TextFile(<<"d.ts">>), TextFile(<<"gen/">>),
                TextFile(<<"gen/", "d.ts">>), TextFile(<<"*.ts", "!e.ts">>)},
        se \in SubSeqs(HiddenTemplateE),
        sx \in {<<>>, <<Stmt("named", "../e")>>} }

InitHidden ==
    /\ fs \in HiddenTrees
    /\ analyzer = AnalyzerInit
    /\ inv = <<>>
    /\ q = NoCall
    /\ view = ViewInit

SpecHidden == InitHidden /\ [][NextGraph]_vars

RECURSIVE FoldersAbove(_, _)
\* the folders between projectRoot and the path p, projectRoot excluded
FoldersAbove(projectRoot, p) ==
    IF PathDirname(p) = projectRoot \/ PathDirname(p) = "/" \/ PathDirname(p) = p THEN {}
    ELSE {PathDirname(p)} \cup FoldersAbove(projectRoot, PathDirname(p))

\* the rules of the project's .gitignore exclude p or a folder p lies in
Excluded(projectRoot, p) ==
    \/ shouldIgnore(GitignoreParser(projectRoot), p)
    \/ \E d \in FoldersAbove(projectRoot, p) : shouldIgnore(GitignoreParser(projectRoot), d)

\* C17: no returned graph holds a record, other than the entry file's, of a file
\* that the ignore rules exclude or that lies in an excluded folder, and no
\* import of a record is resolved to such a file.
C17_IgnoredNeverOnMap ==
    \A i \in 1..Len(inv) :
        inv[i].status = "returned" =>
            \A k \in 1..Len(inv[i].files) :
                /\ inv[i].files[k].path # inv[i].entry
                      => ~Excluded(inv[i].root, inv[i].files[k].path)
                /\ \A j \in 1..Len(inv[i].files[k].imports) :
                      IsResolvedInternal(inv[i].files[k].imports[j])
                          /\ IsFile(inv[i].files[k].imports[j].resolvedPath)
                          => ~Excluded(inv[i].root, inv[i].files[k].imports[j].resolvedPath)

----------------------------------------------------------------------------
(* The persistent store of positions (specification SpecLayout).           *)

\* the store holds, under the page's key, the current x and y of every node
StoredMatchesCurrent ==
    /\ StorageKey(view.currentFile) \in DOMAIN view.storage
    /\ \A k \in 1..Len(view.nodes) :
          /\ HasPosition(view.nodes[k])
          /\ view.nodes[k].id \in DOMAIN view.storage[StorageKey(view.currentFile)]
          /\ view.storage[StorageKey(view.currentFile)][view.nodes[k].id] = view.nodes[k].pos

\* initCanvas has just computed a layout (spiral or grid): layoutNodes was called
\* and reused nothing
LayoutComputed == q.op = "initCanvas" /\ q.called /\ ~(q.hadItem /\ OverlapAtLeast70)

\* C18: right after a layout was computed (by layoutNodes or by organizeLayout)
\* and right after a drag ended, the store holds under the page's key the
\* current x and y of every node.
C18_PositionsWritten ==
    (LayoutComputed \/ q.op \in {"organizeLayout", "mouseup"}) => StoredMatchesCurrent

----------------------------------------------------------------------------
(* External dependencies in the visualization data (specification          *)
(* SpecRepeat).                                                            *)

\* the record with this path has an import of the external source
ImportsExternal(files, path, source) ==
    \E k \in 1..Len(files) :
        /\ files[k].path = path
        /\ \E j \in 1..Len(files[k].imports) :
              files[k].imports[j].isNodeModule /\ files[k].imports[j].source = source

\* the external sources the records of the graph import
ExternalSources(files) ==
    UNION { { files[k].imports[j].source :
                j \in { j1 \in 1..Len(files[k].imports) : files[k].imports[j1].isNodeModule } } :
            k \in 1..Len(files) }

\* the panel shows the external imports of the record with this path
ShowsExternalsOf(path) == q.isProjectMode \/ path = q.currentFile

\* C19: the visualization data hold a node for an external source exactly when a
\* record imports it and the display is project-wide or that record is the focus
\* file, an edge from it to exactly those records, at most one node per source,
\* and no other external node.
C19_ExternalNodes ==
    q.op = "createOrShow" =>
        /\ \A s \in ExternalSources(inv[q.call].files) :
              /\ ("node_module:" \o s) \in NodeIds(view.nodes)
                    <=> \E p \in MapKeys(inv[q.call].files) :
                           ImportsExternal(inv[q.call].files, p, s) /\ ShowsExternalsOf(p)
              /\ Cardinality({ k \in 1..Len(view.nodes) :
                                 view.nodes[k].id = "node_module:" \o s }) <= 1
              /\ \A p \in MapKeys(inv[q.call].files) :
                    (\E k \in 1..Len(view.edges) :
                        /\ view.edges[k].from = "node_module:" \o s
                        /\ view.edges[k].to = p)
                    <=> (ImportsExternal(inv[q.call].files, p, s) /\ ShowsExternalsOf(p))
        /\ \A k \in 1..Len(view.nodes) :
              view.nodes[k].isNodeModule =>
                  \E s \in ExternalSources(inv[q.call].files) :
                      view.nodes[k].id = "node_module:" \o s

\* single-file display of n.js, which requires express (matched by two patterns),
\* with its importer m.js, which imports express too: one express node, an edge
\* from it to n.js and none to m.js
C19_Witness ==
    /\ q.op = "createOrShow"
    /\ ~q.isProjectMode
    /\ q.currentFile = "/s/n.js"
    /\ ImportsExternal(inv[q.call].files, "/s/n.js", "express")
    /\ ImportsExternal(inv[q.call].files, "/s/m.js", "express")
    /\ Cardinality({ k \in 1..Len(view.nodes) : view.nodes[k].id = "node_module:express" }) = 1
    /\ Cardinality({ k \in 1..Len(view.edges) :
                       view.edges[k].from = "node_module:express"
                       /\ view.edges[k].to = "/s/n.js" }) = 2
    /\ ~\E k \in 1..Len(view.edges) :
          view.edges[k].from = "node_module:express" /\ view.edges[k].to = "/s/m.js"

----------------------------------------------------------------------------
(* Directory-only rules (specification SpecIgnore).                        *)

\* the lines of the .gitignore that make a rule: not blank, not a comment
RuleLines ==
    SelectSeq(fs["/r/.gitignore"].lines,
              LAMBDA l : Trim(l) # "" /\ ~StartsWith(Trim(l), "#"))

\* the rules that match the path, directory-only ones left out or not
MatchingRules(parser, filePath, withDirectoryRules) ==
    { i \in 1..Len(parser.patterns) :
        /\ parser.patterns[i].isDirectory => withDirectoryRules
        /\ matchesPattern(PathRelative(parser.projectRoot, filePath),
                          parser.patterns[i].pattern) }

\* ignored iff the last rule of the set M is not a negation
LastVerdict(parser, M) ==
    M # {} /\ ~parser.patterns[CHOOSE i \in M : \A j \in M : j <= i].isNegation

\* C20: a rule is directory-only exactly when its line ends with a separator;
\* for a path that is not an existing directory shouldIgnore decides as if the
\* directory-only rules were not there, and for an existing directory they take
\* part like any other rule.
C20_DirectoryOnlyRules ==
    q.op = "shouldIgnore" =>
        /\ Len(analyzer.gitignoreParser.patterns) = Len(RuleLines)
        /\ \A i \in 1..Len(RuleLines) :
              analyzer.gitignoreParser.patterns[i].isDirectory
                  <=> EndsWith(Trim(RuleLines[i]), "/")
        /\ q.result = LastVerdict(analyzer.gitignoreParser,
                          MatchingRules(analyzer.gitignoreParser, q.path, IsDirectory(q.path)))

\* a directory-only negation whose pattern matches an ignored file, and one that
\* matches a path that does not exist, left the verdict of the earlier rule alone
C20_Witness ==
    /\ q.op = "shouldIgnore"
    /\ fs["/r/.gitignore"].lines = <<"*.log", "!*.log/">>
    /\ q.path \in {"/r/a.log", "/r/ghost.log"}
    /\ matchesPattern(PathRelative(Root, q.path), "*.log")
    /\ q.result

----------------------------------------------------------------------------
(* Specification SpecScan: one call of analyzeProject or analyzeFile on a  *)
(* JavaScript tree with folders named lib (at the root and below src), a   *)
(* folder dist below src, a folder sub that may be unlistable, a Vue and a *)
(* Svelte component, and optionally a tsconfig.json, a package.json that   *)
(* declares typescript, and one TypeScript file.                           *)

\* an import statement written outside every <script> block
Markup(form, source) == [Stmt(form, source) EXCEPT !.inScript = FALSE]

\* a package.json whose devDependencies hold typescript
PackageJsonWithTypeScript == [TextFile(<<>>) EXCEPT !.tsDeps = TRUE]

ScanFolders == {"/r", "/r/lib", "/r/src", "/r/src/lib", "/r/src/dist", "/r/sub"}

ScanPaths ==
    ScanFolders \cup
    {"/r/tsconfig.json", "/r/package.json", "/r/m.js", "/r/w.jsx", "/r/t.ts",
     "/r/lib/v.js", "/r/src/lib/u.js", "/r/src/dist/z.js", "/r/sub/k.js",
     "/r/p.vue", "/r/q.svelte"}

ScanTrees ==
    { [p \in ScanPaths |->
          IF p = "/r/sub" THEN [DirEntry EXCEPT !.readable = rs]
          ELSE IF p \in ScanFolders THEN DirEntry
          ELSE IF p = "/r/tsconfig.json" THEN tc
          ELSE IF p = "/r/package.json" THEN pj
          ELSE IF p = "/r/t.ts" THEN tt
          ELSE IF p = "/r/m.js" THEN SourceFile(sm)
          ELSE IF p = "/r/p.vue" THEN SourceFile(sp)
          ELSE IF p = "/r/q.svelte" THEN SourceFile(sq)
          ELSE SourceFile(<<>>)] :
        rs \in BOOLEAN,
        tc \in {NoEntry, TextFile(<<>>)},
        pj \in {NoEntry, PackageJsonWithTypeScript},
        tt \in {NoEntry, SourceFile(<<>>)},
        sm \in {<<>>, <<Stmt("named", "./lib/v")>>, <<Stmt("named", "./src/lib/u")>>,
                <<Stmt("named", "./src/dist/z"), Stmt("bound", "./w")>>},
        sp \in {<<>>, <<Markup("named", "./w")>>, <<Markup("named", "./w"), Stmt("named", "./m")>>},
        sq \in {<<>>, <<Markup("named", "./w")>>, <<Markup("bound", "./w"), Stmt("named", "./m")>>} }

ScanEntryChoices == {"/r/m.js", "/r/p.vue", "/r/q.svelte"}

InitScan ==
    /\ fs \in ScanTrees
    /\ analyzer = AnalyzerInit
    /\ inv = <<>>
    /\ q = NoCall
    /\ view = ViewInit

\* the command importMapExplorer.showCurrentFileMap on one of the tree's files
ScanAnalyzeFile == Len(inv) = 0 /\ \E f \in ScanEntryChoices : StartAnalyzeFile(f, Root)

NextScan ==
    \/ GraphAnalyzeProject
    \/ ScanAnalyzeFile
    \/ GraphResumeFirstPass
    \/ GraphResumeEntry
    \/ GraphResumeImporter
    \/ GraphResumeDependency

SpecScan == InitScan /\ [][NextScan]_vars

\* the .js and .jsx files that lie directly in the folder dir
PlainSourcesIn(dir) ==
    { p \in DOMAIN fs : /\ IsFile(p)
                        /\ PathDirname(p) = dir
                        /\ (EndsWith(p, ".js") \/ EndsWith(p, ".jsx")) }

\* C21: .vue and .svelte are in the extension set of every dialect, and a
\* call on a tree that holds .js/.jsx files and no .ts/.tsx file selects an
\* extension set with .js and .jsx and its scan returns the .js and .jsx
\* files of the root folder, also when tsconfig.json or a typescript
\* dependency is present.
C21_PlainSourcesScanned ==
    /\ \A t \in {"typescript", "javascript-commonjs", "javascript-es6", "mixed"} :
          {".vue", ".svelte"} \subseteq Range(getSupportedExtensions(t))
    /\ \A i \in 1..Len(inv) :
          LET r == inv[i]
              stats == analyzeFileDistribution(r.root)
          IN  (r.kind = "project" /\ r.status # "threw"
                 /\ stats.jsFiles > 0 /\ stats.tsFiles = 0) =>
                 /\ {".js", ".jsx"} \subseteq Range(analyzer.supportedExtensions)
                 /\ PlainSourcesIn(r.root) \subseteq Range(r.allFiles)

----------------------------------------------------------------------------
(* C22: the two passes of analyzeProject.                                  *)

\* a record without its importedBy list
RecordCore(node) == [path |-> node.path, name |-> node.name, imports |-> node.imports]

RecordCores(files) == [k \in 1..Len(files) |-> RecordCore(files[k])]

\* some record of files has an importedBy entry
SomeImportedBy(files) == \E k \in 1..Len(files) : Len(files[k].importedBy) > 0

\* what a step of a call of analyzeProject from r to s keeps: while the first
\* pass runs no record has an importedBy entry; a record, once stored, keeps
\* its place, path, name and imports; the step that makes the first append
\* starts from the await for the last discovered file and ends the call, the
\* records after it are those of the first pass, one for every discovered
\* file that could be analyzed, each with the imports it was created with.
PassOrderStep(r, s) ==
    /\ s.pc = "pass1" => ~SomeImportedBy(s.files)
    /\ r.pc = "pass1" =>
          /\ ~SomeImportedBy(r.files)
          /\ Len(s.files) >= Len(r.files)
          /\ SubSeq(RecordCores(s.files), 1, Len(r.files)) = RecordCores(r.files)
          /\ RecordCores(s.files) = RecordCores(WithPending(r))
          /\ SomeImportedBy(s.files) =>
                /\ r.idx = Len(r.allFiles)
                /\ s.pc = "done" /\ s.status = "returned"
                /\ MapKeys(s.files) = { f \in Range(r.allFiles) : CanRead(f) }
                /\ \A k \in 1..Len(s.files) :
                      <<s.files[k]>> = [analyzeFileContent(analyzer, s.files[k].path, r.root)
                                           EXCEPT ![1].importedBy = s.files[k].importedBy]
    /\ r.pc = "done" => s = r

\* C22: in analyzeProject the second pass starts only when the first pass is
\* complete: no importedBy entry exists before every discovered file has been
\* analyzed and its record stored, and the second pass leaves the set of
\* records and each record's path, name and imports as the first pass made
\* them; only importedBy grows.
C22_SecondPassAfterFirst ==
    [][ \A i \in 1..Len(inv) :
            inv[i].kind = "project" => PassOrderStep(inv[i], inv'[i]) ]_vars

\* a call of analyzeProject has made its second pass over at least three
\* records, with an append to a record that was stored before its importer
C22_Witness ==
    \E i \in 1..Len(inv) :
        /\ inv[i].kind = "project" /\ inv[i].status = "returned"
        /\ Len(inv[i].files) >= 3
        /\ \E k, m \in 1..Len(inv[i].files) :
              /\ k < m
              /\ inv[i].files[m].path \in Range(inv[i].files[k].importedBy)

----------------------------------------------------------------------------
(* C23: build-output folders.                                              *)

BuildFolderNames == {"dist", "build", "out", "lib", ".next", "coverage"}

\* p lies in a folder with a build-output name, at any depth below projectRoot
UnderBuildFolder(projectRoot, p) ==
    \E d \in FoldersAbove(projectRoot, p) : PathBasename(d) \in BuildFolderNames

\* C23: the scan of a call returns no file that lies under a folder named
\* dist, build, out, lib, .next or coverage, at any depth below the root.
C23_BuildFoldersSkipped ==
    \A i \in 1..Len(inv) :
        \A f \in Range(inv[i].allFiles) : ~UnderBuildFolder(inv[i].root, f)

----------------------------------------------------------------------------
(* C24: component files.                                                   *)

\* the import sources written inside the <script> blocks of the file p
ScriptSources(p) == { st.source : st \in Range(SelectSeq(fs[p].stmts, LAMBDA st : st.inScript)) }

\* the import sources a record holds
RecordSources(node) == { node.imports[j].source : j \in 1..Len(node.imports) }

\* the records a call holds, the one it awaits included
RecordsOf(r) == Range(r.files) \cup Range(r.pending)

\* C24: the record of a .vue or .svelte file holds import references only for
\* the statements inside its <script> blocks: a statement outside every block
\* yields none, and a file without script content has an empty import list.
C24_OnlyScriptBlocksScanned ==
    \A i \in 1..Len(inv) : \A node \in RecordsOf(inv[i]) :
        (EndsWith(node.path, ".vue") \/ EndsWith(node.path, ".svelte")) =>
            RecordSources(node) = ScriptSources(node.path)

----------------------------------------------------------------------------
(* C25: the end of the spiral layout.                                      *)

\* both coordinates of the node are set, and to numbers
HasFinitePosition(node) ==
    /\ HasPosition(node)
    /\ node.pos[1] \notin {NaN, JsonNull}
    /\ node.pos[2] \notin {NaN, JsonNull}

\* the fallback position of otherNodes[k - 1] among n other nodes
SpiralFallback(k, n) ==
    << LayoutCenterX + FallbackCos[n][k] * (150 + ((k - 1) \div 8) * 30),
       LayoutCenterY + FallbackSin[n][k] * (150 + ((k - 1) \div 8) * 30) >>

\* C25: when the spiral layout has run, the current file node is at the canvas
\* center, the while loop of every other node has ended after at most 100
\* attempts, a node whose loop found no valid position is at its fallback
\* position, and every node has defined numeric coordinates.
C25_SpiralTerminates ==
    SpiralRan =>
        /\ view.nodes[CurrentNodeIndex(view.nodes)].pos = <<LayoutCenterX, LayoutCenterY>>
        /\ \A k \in 1..Len(SpiralOthers) :
              /\ SpiralEnd(k).validPosition \/ SpiralEnd(k).attempts >= 100
              /\ SpiralEnd(k).attempts <= 100
              /\ ~SpiralEnd(k).validPosition =>
                    SpiralOthers[k].pos = SpiralFallback(k, Len(SpiralOthers))
        /\ \A k \in 1..Len(view.nodes) : HasFinitePosition(view.nodes[k])

\* a spiral layout on a canvas too small for any slot: several nodes used up
\* their 100 attempts and were placed by the fallback
C25_Witness ==
    /\ SpiralRan
    /\ Cardinality({ k \in 1..Len(SpiralOthers) :
                        ~SpiralEnd(k).validPosition /\ SpiralEnd(k).attempts = 100 }) >= 2

----------------------------------------------------------------------------
(* Specification SpecBands: the page of a focused file hub.ts with up to   *)
(* nine other nodes around it: files that import it, files it imports,     *)
(* packages it imports and unrelated files.                                *)

BandHub == "/r/hub.ts"

BandModule(i) == "m" \o <<"1", "2", "3", "4", "5", "6", "7", "8", "9">>[i]

\* n files besides the hub; the files numbered in above import the hub, the hub
\* imports those numbered in below and ext packages
BandShapes ==
    { [n |-> 9, above |-> 1..9, below |-> {}, ext |-> 0],
      [n |-> 9, above |-> {}, below |-> 1..9, ext |-> 0],
      [n |-> 0, above |-> {}, below |-> {}, ext |-> 9],
      [n |-> 7, above |-> 1..4, below |-> 3..6, ext |-> 2],
      [n |-> 4, above |-> {2}, below |-> {}, ext |-> 1] }

BandImports(shape, i) ==
    IF i = 0
    THEN [k \in 1..Cardinality(shape.below) |->
             ImportOf("./f", LayoutFile(Ascending(shape.below)[k]))]
         \o [k \in 1..shape.ext |-> ImportOf(BandModule(k), None)]
    ELSE IF i \in shape.above THEN << ImportOf("./hub", BandHub) >>
    ELSE <<>>

\* the import map of a shape: the hub's record, then those of the other files
BandMap(shape) ==
    [files |-> [k \in 1..(shape.n + 1) |->
                   [path |-> IF k = 1 THEN BandHub ELSE LayoutFile(k - 1),
                    name |-> PathBasename(IF k = 1 THEN BandHub ELSE LayoutFile(k - 1)),
                    imports |-> BandImports(shape, k - 1),
                    importedBy |-> <<>>, isNodeModule |-> FALSE]]]

\* ImportMapPanel.createOrShow with the graph of the hub, in either display
BandsCreateOrShow ==
    /\ q.loads < MaxLoads
    /\ \E shape \in BandShapes, isProjectMode \in BOOLEAN :
          UpdateContent(BandMap(shape), BandHub, isProjectMode)
    /\ q' = [LayoutCall("updateContent") EXCEPT !.loads = q.loads + 1]
    /\ UNCHANGED <<fs, analyzer, inv>>

NextBands ==
    \/ BandsCreateOrShow
    \/ LayoutInitCanvas
    \/ LayoutMouseDown
    \/ LayoutMouseMove
    \/ LayoutMouseUp
    \/ LayoutOrganize
    \/ LayoutBeforeUnload

SpecBands == InitLayout /\ [][NextBands]_vars

\* the Organize button has just laid out a page that has a current file node
Organized == q.op = "organizeLayout" /\ CurrentNodeIndex(view.nodes) # 0

EntryNode == view.nodes[CurrentNodeIndex(view.nodes)]

\* the node imports the entry file: an edge leads from the entry to it
ImportsEntry(n) == HasEdge(view.edges, EntryNode.id, n.id)

\* the entry file imports the node: an edge leads from it to the entry
ImportedByEntry(n) == HasEdge(view.edges, n.id, EntryNode.id)

NonEntry == { k \in 1..Len(view.nodes) : ~view.nodes[k].isCurrentFile }

ImportingBand == { k \in NonEntry : ~view.nodes[k].isNodeModule /\ ImportsEntry(view.nodes[k]) }

ImportedBand ==
    { k \in NonEntry : /\ ~view.nodes[k].isNodeModule
                       /\ ~ImportsEntry(view.nodes[k])
                       /\ ImportedByEntry(view.nodes[k]) }

ExternalBand == { k \in NonEntry : view.nodes[k].isNodeModule }

SideGroup == NonEntry \ (ImportingBand \cup ImportedBand \cup ExternalBand)

\* the nodes of the band B that share the row of node k
RowOf(B, k) == { j \in B : view.nodes[j].pos[2] = view.nodes[k].pos[2] }

RECURSIVE SumX(_)
SumX(S) ==
    IF S = {} THEN 0
    ELSE LET k == CHOOSE j \in S : TRUE IN view.nodes[k].pos[1] + SumX(S \ {k})

\* every row of the band B holds at most 8 nodes and is centered on the entry's x
BandRowsCentered(B) ==
    \A k \in B :
        /\ Cardinality(RowOf(B, k)) <= 8
        /\ SumX(RowOf(B, k)) = Cardinality(RowOf(B, k)) * EntryNode.pos[1]

\* C26: after the hierarchical re-layout of a page with an entry node, the entry
\* node is at the canvas center, every other node is in exactly one group
\* and has defined coordinates, the files that import the entry lie above the
\* center, the files the entry imports (and that do not import it) lie below it,
\* every external node lies strictly below every row of the imported band, no
\* row of a band holds more than 8 nodes, and every band row is centered on the
\* entry node's x.
C26_HierarchicalBands ==
    Organized =>
        /\ EntryNode.pos = <<LayoutCenterX, LayoutCenterY>>
        /\ \A k \in NonEntry :
              /\ HasFinitePosition(view.nodes[k])
              /\ Cardinality({ B \in {ImportingBand, ImportedBand, ExternalBand, SideGroup} :
                                  k \in B }) = 1
        /\ \A k \in ImportingBand : view.nodes[k].pos[2] < LayoutCenterY
        /\ \A k \in ImportedBand : view.nodes[k].pos[2] > LayoutCenterY
        /\ \A k \in ExternalBand : \A j \in ImportedBand :
              view.nodes[k].pos[2] > view.nodes[j].pos[2]
        /\ BandRowsCentered(ImportingBand)
        /\ BandRowsCentered(ImportedBand)
        /\ BandRowsCentered(ExternalBand)

\* a re-layout with nine files in the importing band (two rows), and one with
\* files in both bands, packages below them and a file in the side group
C26_Witness ==
    /\ Organized
    /\ \/ /\ Cardinality(ImportingBand) = 9
          /\ \E k \in ImportingBand : Cardinality(RowOf(ImportingBand, k)) = 8
          /\ \E k \in ImportingBand : Cardinality(RowOf(ImportingBand, k)) = 1
       \/ /\ Cardinality(ExternalBand) = 9
          /\ \E k \in ExternalBand : Cardinality(RowOf(ExternalBand, k)) = 8

----------------------------------------------------------------------------
(* C27: how a call ends.                                                   *)

\* C27: every call of analyzeProject and analyzeFile that has ended has
\* returned a graph, also on a tree with a folder that cannot be listed.
C27_ScanNeverAborts ==
    \A i \in 1..Len(inv) : inv[i].pc = "done" => inv[i].status = "returned"

----------------------------------------------------------------------------
(* C28: the focused graph and the project graph of one tree.               *)

\* C28: when analyzeFile has returned for an entry file that has a record in
\* the graph analyzeProject returns for the same root and tree, every record of
\* the focused graph is a record of that project graph.
C28_FocusedWithinProject ==
    \A i \in 1..Len(inv) :
        LET project == RunAlone("project", inv[i].root, None)
        IN  (/\ inv[i].kind = "file" /\ inv[i].status = "returned"
             /\ project.status = "returned"
             /\ MapHas(project.files, inv[i].entry)) =>
                MapKeys(inv[i].files) \subseteq MapKeys(project.files)

----------------------------------------------------------------------------
(* C29: the grid layout.                                                   *)

\* the grid branch of layoutNodes has just run: initCanvas called layoutNodes
\* on a page without a current file node and without stored positions, or the
\* Organize button was used on such a page
GridRan ==
    /\ CurrentNodeIndex(view.nodes) = 0
    /\ Len(view.nodes) > 0
    /\ \/ q.op = "initCanvas" /\ q.called /\ ~q.hadItem
       \/ q.op = "organizeLayout"

\* C29: after the grid layout every node has finite numeric x and y, on every
\* canvas size.
C29_GridFinite ==
    GridRan => \A k \in 1..Len(view.nodes) : HasFinitePosition(view.nodes[k])

----------------------------------------------------------------------------
(* Specification SpecPanel: calls of ImportMapPanel.createOrShow, show and *)
(* dispose, and the user closing a panel.  Here q holds the static members *)
(* and the objects of the class: q.panels lists the ImportMapPanel objects *)
(* created so far, each with the state of its vscode.WebviewPanel          *)
(* (disposed or live), the number of entries of _disposables and the page  *)
(* its webview.html shows (<<>> before it is set); q.currentPanel is the   *)
(* index of ImportMapPanel.currentPanel, 0 for undefined.                  *)

\* how many panels are created
MaxPanels == 3

\* what getHtmlForWebview(importMap, currentFile, isProjectMode) embeds in the
\* page; importMap is <<>> when the argument is absent
getHtmlForWebview(importMap, currentFile, isProjectMode) ==
    IF importMap = <<>> THEN [nodes |-> <<>>, edges |-> <<>>]
    ELSE convertToVisualizationData(importMap[1].files, currentFile, isProjectMode)

\* vscode.window.createWebviewPanel(...) and new ImportMapPanel(panel, extensionUri):
\* the constructor registers onDidDispose and onDidReceiveMessage
NewPanel == [disposed |-> FALSE, disposables |-> 2, html |-> <<>>]

\* this.updateContent(importMap, currentFile, isProjectMode) on the panel object
PanelUpdateContent(panel, importMap, currentFile, isProjectMode) ==
    [panel EXCEPT !.html = <<getHtmlForWebview(<<importMap>>, currentFile, isProjectMode)>>]

\* the members after createOrShow(extensionUri, importMap, currentFile,
\* isProjectMode, shouldUpdate)
createOrShow(p, importMap, currentFile, isProjectMode, shouldUpdate) ==
    IF p.currentPanel # 0
    THEN IF shouldUpdate
         THEN [p EXCEPT !.panels[p.currentPanel] =
                  PanelUpdateContent(@, importMap, currentFile, isProjectMode)]
         ELSE p
    ELSE [p EXCEPT !.panels = Append(@, PanelUpdateContent(NewPanel, importMap, currentFile,
                                                           isProjectMode)),
                   !.currentPanel = Len(p.panels) + 1]

\* the members after show(extensionUri)
show(p) ==
    IF p.currentPanel # 0 THEN p
    ELSE [p EXCEPT !.panels = Append(@, [NewPanel EXCEPT
                                            !.html = <<getHtmlForWebview(<<>>, None, FALSE)>>]),
                   !.currentPanel = Len(p.panels) + 1]

\* the members after dispose() on the panel object k: this._panel.dispose() fires
\* onDidDispose once, whose listener runs dispose() again to the same effect
dispose(p, k) ==
    [p EXCEPT !.currentPanel = 0,
              !.panels[k] = [@ EXCEPT !.disposed = TRUE, !.disposables = 0]]

PanelMaps == { LayoutMap(1..5), LayoutMap(3..9) }

InitPanel ==
    /\ fs = [p \in {Root} |-> DirEntry]
    /\ analyzer = AnalyzerInit
    /\ inv = <<>>
    /\ q = [op |-> "none", panels |-> <<>>, currentPanel |-> 0]
    /\ view = ViewInit

\* a command of the extension calls ImportMapPanel.createOrShow
PanelCreateOrShow ==
    /\ q.currentPanel # 0 \/ Len(q.panels) < MaxPanels
    /\ \E importMap \in PanelMaps, currentFile \in {None, LayoutFile(3)},
          isProjectMode \in BOOLEAN, shouldUpdate \in BOOLEAN :
          q' = [createOrShow(q, importMap, currentFile, isProjectMode, shouldUpdate)
                   EXCEPT !.op = "createOrShow"]
    /\ UNCHANGED <<fs, analyzer, inv, view>>

\* ImportMapPanel.show is called
PanelShow ==
    /\ q.currentPanel # 0 \/ Len(q.panels) < MaxPanels
    /\ q' = [show(q) EXCEPT !.op = "show"]
    /\ UNCHANGED <<fs, analyzer, inv, view>>

\* the user closes the tab of a live panel: VS Code disposes the WebviewPanel and
\* fires onDidDispose, whose listener calls dispose()
PanelClose ==
    /\ \E k \in 1..Len(q.panels) :
          /\ ~q.panels[k].disposed
          /\ q' = [dispose(q, k) EXCEPT !.op = "close"]
    /\ UNCHANGED <<fs, analyzer, inv, view>>

\* the public method dispose() is called on a panel object, current or not
PanelDispose ==
    /\ \E k \in 1..Len(q.panels) : q' = [dispose(q, k) EXCEPT !.op = "dispose"]
    /\ UNCHANGED <<fs, analyzer, inv, view>>

NextPanel ==
    \/ PanelCreateOrShow
    \/ PanelShow
    \/ PanelClose
    \/ PanelDispose

SpecPanel == InitPanel /\ [][NextPanel]_vars

\* the panel objects whose webview panel is live
LivePanels == { k \in 1..Len(q.panels) : ~q.panels[k].disposed }

\* C30: at most one webview panel is live, and ImportMapPanel.currentPanel is
\* undefined exactly when no panel is live and refers to the live panel
\* otherwise; in particular dispose() on an object that is no longer the
\* current panel leaves the reference to a newer live panel in place.
C30_SinglePanel ==
    /\ Cardinality(LivePanels) <= 1
    /\ q.currentPanel = 0 <=> LivePanels = {}
    /\ q.currentPanel # 0 => q.currentPanel \in LivePanels

====
